---- MODULE Spec2Model ----
(***************************************************************************)
(* Model of the benchmark-sweep harness of redixhumayun/simpledb:          *)
(*   scripts/compare_benchmarks.py   the regression comparator             *)
(*   scripts/run_regime_matrix.py    the 3 x 2 regime-matrix orchestrator  *)
(*                                                                         *)
(*   scripts/run_all_benchmarks.py, scripts/bench/run_buffer_pool.py       *)
(*                                   the subject invokers                  *)
(*   scripts/bench/generate_io_mode_charts.py, generate_scaling_charts.py, *)
(*   render_replacement_policy_docs.py   the chart and table renderers     *)
(*   scripts/bench/run_buffer_pool.py    the buffer-pool policy runner     *)
(*                                                                         *)
(* Eight specifications are defined.                                       *)
(*   SpecCompare  compare_benchmarks() run on every pair of ResultSets     *)
(*                drawn from bounded sets, one loop iteration per step.    *)
(*   Spec         main() of run_regime_matrix.py, one statement per step,  *)
(*                invoked on an empty output directory.                    *)
(*   SpecRerun    main() of run_regime_matrix.py invoked repeatedly into   *)
(*                one output directory, on any host.                       *)
(*   SpecExtract  the scan of a subject's captured stdout by an invoker.   *)
(*   SpecRender   the renderers run on bounded sets of stored artifacts.   *)
(*   SpecTerminating  Spec under weak fairness of its next-state action.   *)
(*   SpecDetect   main() of run_regime_matrix.py on every host of a        *)
(*                bounded set of cgroup layouts.                           *)
(*   SpecPolicies main() of run_buffer_pool.py on an empty platform        *)
(*                directory and on directories left by earlier runs.       *)
(*                                                                         *)
(* Numbers.  Benchmark values are nanosecond counts; they are modelled as  *)
(* naturals.  Python computes the percent change in binary floating point; *)
(* the model computes it as an exact fraction [num, den].  For integer     *)
(* values below 2^53 / 100 the float result compares with 5 and -5 exactly *)
(* as the fraction does (a ratio of exactly 1/20 yields the double 5.0).   *)
(*                                                                         *)
(* Strings.  The status glyphs of the report are written in ASCII:         *)
(*   "ok" = check mark, "slower" = warning sign + " slower",               *)
(*   "faster" = rocket + " faster", "missing" = cross + " missing",        *)
(*   "--" = em dash, "-" = hyphen, "N/A" = itself.                         *)
(***************************************************************************)
EXTENDS Integers, Sequences, FiniteSets, TLC

(***************************************************************************)
(* Bounds of the model.                                                    *)
(***************************************************************************)
\* longest base ResultSet fed to the comparator
MaxBaseLen == 2
\* longest candidate ResultSet fed to the comparator
MaxPrLen == 2
\* longest captured stdout of a subject invocation, in lines
MaxLines == 4
\* invocations of the orchestrator into one output directory
MaxSweeps == 3
\* leading thread counts for which a stored ResultSet may hold a record
MaxChartThreads == 2
\* longest --policies list given to the policy runner
MaxPolicyArgs == 2

(***************************************************************************)
(* Generic helpers.                                                        *)
(***************************************************************************)
\* all sequences over S of length 0..n
SeqsUpTo(S, n) == UNION {[1..k -> S] : k \in 0..n}

\* Python's abs() on an integer
Abs(x) == IF x < 0 THEN -x ELSE x

\* an exact fraction num/den, den > 0, standing for a Python float
Frac(n, d) == [num |-> n, den |-> d]

\* x < k and x > k for a fraction x and an integer k
FracLt(x, k) == x.num < k * x.den
FracGt(x, k) == x.num > k * x.den
FracAbs(x) == Frac(Abs(x.num), x.den)

(***************************************************************************)
(* compare_benchmarks.py                                                   *)
(***************************************************************************)
BenchNames == {"a", "b"}
BaseValues == {0, 1000}
PrValues == {949, 950, 1000, 1050, 1051}

\* the optional statistics fields of a measurement record
StatFields == {"p50", "p95", "std_dev"}

\* a measurement record without statistics: {"name": n, "unit": "ns", "value": v}
PlainRecord(n, v) == [name |-> n, unit |-> "ns", value |-> v]

\* a measurement record that also carries p50, p95 and std_dev
RichRecord(n, v, p) == [name |-> n, unit |-> "ns", value |-> v, p50 |-> p, p95 |-> p, std_dev |-> p]

\* a measurement record that carries std_dev as its only statistic
SdOnlyRecord(n, v, sd) == [name |-> n, unit |-> "ns", value |-> v, std_dev |-> sd]

\* the records of the bounded input sets: plain ones of every name and
\* value, one base record with std_dev only, one candidate record with all
\* three statistics
BaseRecords ==
    {PlainRecord(n, v) : n \in BenchNames, v \in BaseValues} \cup {SdOnlyRecord("b", 1000, 10)}
PrRecords ==
    {PlainRecord(n, v) : n \in BenchNames, v \in PrValues} \cup {RichRecord("a", 1050, 900)}

\* the ResultSets the comparator is run on (duplicate names included)
BaseSets == SeqsUpTo(BaseRecords, MaxBaseLen)
PrSets == SeqsUpTo(PrRecords, MaxPrLen)

\* A table cell is a tuple: <<text>> for a fixed text, <<unit, quantity>> for
\* a formatted duration, <<sign, hundredths, "%">> for a formatted change.

\* format_ns: the unit chosen by magnitude and the quantity shown.  Below
\* 1000 the value is printed with no decimals; above, with two decimals,
\* kept here as hundredths of the unit (rounded to nearest; the value sets
\* of the model hold no value that lies exactly between two hundredths).
format_ns(ns) ==
    IF ns < 1000 THEN <<"ns", ns>>
    ELSE IF ns < 1000000 THEN <<"us", (ns * 100 + 500) \div 1000>>
    ELSE IF ns < 1000000000 THEN <<"ms", (ns * 100 + 500000) \div 1000000>>
    ELSE <<"s", (ns * 100 + 500000000) \div 1000000000>>

\* calculate_change that reports a zero base as a change of 100 percent
calculate_change_zero_is_100(base, pr) ==
    IF base = 0 THEN Frac(100, 1)
    ELSE Frac((pr - base) * 100, base)

\* calculate_change: percentage change from base to PR, 0 when base is 0
calculate_change(base, pr) ==
    IF base = 0 THEN Frac(0, 1)
    ELSE Frac((pr - base) * 100, base)

\* f"{change:+.2f}%": sign and hundredths of a percent, rounded to nearest
fmt_change(change) ==
    <<IF change.num < 0 THEN "-" ELSE "+",
      (2 * Abs(change.num) * 100 + change.den) \div (2 * change.den), "%">>

\* _has_rich_stats that looks for p50 only
has_rich_stats_p50_only(data) ==
    \E i \in 1..Len(data) : "p50" \in DOMAIN data[i]

\* _has_rich_stats: some item carries p50, p95 or std_dev
has_rich_stats(data) ==
    \E i \in 1..Len(data) : (DOMAIN data[i]) \cap StatFields # {}

\* _fmt: the formatted value, or "-" when the argument is not a number
\* (item.get(field, '') yields '' for an absent field)
fmt(item, field) ==
    IF field \in DOMAIN item THEN format_ns(item[field]) ELSE <<"-">>

\* pr_lookup = {item['name']: item for item in pr_data}: the last item of
\* each name wins
pr_lookup(pr_data) ==
    [n \in {pr_data[i].name : i \in 1..Len(pr_data)} |->
        pr_data[CHOOSE i \in 1..Len(pr_data) :
                    /\ pr_data[i].name = n
                    /\ \A j \in 1..Len(pr_data) : pr_data[j].name = n => j <= i]]

\* the status chain with the two outer branches exchanged
classify_swapped(change) ==
    IF FracLt(FracAbs(change), 5) THEN "ok"
    ELSE IF FracGt(change, 5) THEN "faster"
    ELSE "slower"

\* the status chain of compare_benchmarks: if abs(change) < 5 / elif
\* change > 5 / else
classify(change) ==
    IF FracLt(FracAbs(change), 5) THEN "ok"
    ELSE IF FracGt(change, 5) THEN "slower"
    ELSE "faster"

\* the header line: 11 columns in rich mode, 5 otherwise
header_line(rich) ==
    IF rich
    THEN <<"Benchmark", "Base mean", "PR mean", "Change", "Base p50", "PR p50",
           "Base p95", "PR p95", "Base sd", "PR sd", "Status">>
    ELSE <<"Benchmark", "Base", "PR", "Change", "Status">>

\* a missing row that computes a change against a PR value of 0
missing_row_computed(base_item, rich) ==
    [name |-> base_item.name, base |-> format_ns(base_item.value), pr |-> <<"--">>,
     change |-> fmt_change(calculate_change(base_item.value, 0)),
     stats |-> IF rich THEN <<(<<"-">>), (<<"-">>), (<<"-">>), (<<"-">>), (<<"-">>), (<<"-">>)>> ELSE <<>>,
     status |-> classify(calculate_change(base_item.value, 0))]

\* the row appended when the benchmark is missing from PR
missing_row(base_item, rich) ==
    [name |-> base_item.name, base |-> format_ns(base_item.value), pr |-> <<"--">>,
     change |-> <<"N/A">>,
     stats |-> IF rich THEN <<(<<"-">>), (<<"-">>), (<<"-">>), (<<"-">>), (<<"-">>), (<<"-">>)>> ELSE <<>>,
     status |-> "missing"]

\* a matched row whose p50 cells have no fallback to the mean
matched_row_no_fallback(base_item, pr_item, rich) ==
    [name |-> base_item.name, base |-> format_ns(base_item.value),
     pr |-> format_ns(pr_item.value),
     change |-> fmt_change(calculate_change(base_item.value, pr_item.value)),
     stats |-> IF rich
               THEN <<fmt(base_item, "p50"), fmt(pr_item, "p50"),
                      fmt(base_item, "p95"), fmt(pr_item, "p95"),
                      fmt(base_item, "std_dev"), fmt(pr_item, "std_dev")>>
               ELSE <<>>,
     status |-> classify(calculate_change(base_item.value, pr_item.value))]

\* the row appended when the benchmark is present on both sides.  In rich
\* mode base p50 falls back to the base value, PR p50 to the PR value.
matched_row(base_item, pr_item, rich) ==
    [name |-> base_item.name, base |-> format_ns(base_item.value),
     pr |-> format_ns(pr_item.value),
     change |-> fmt_change(calculate_change(base_item.value, pr_item.value)),
     stats |-> IF rich
               THEN <<IF "p50" \in DOMAIN base_item THEN format_ns(base_item.p50)
                                                    ELSE format_ns(base_item.value),
                      IF "p50" \in DOMAIN pr_item THEN format_ns(pr_item.p50)
                                                  ELSE format_ns(pr_item.value),
                      fmt(base_item, "p95"), fmt(pr_item, "p95"),
                      fmt(base_item, "std_dev"), fmt(pr_item, "std_dev")>>
               ELSE <<>>,
     status |-> classify(calculate_change(base_item.value, pr_item.value))]

\* one iteration of the for loop over base_data
row_for(base_item, lookup, rich) ==
    IF base_item.name \notin DOMAIN lookup
    THEN missing_row(base_item, rich)
    ELSE matched_row(base_item, lookup[base_item.name], rich)

\* the rows compare_benchmarks returns for two ResultSets, in loop order
compare_benchmarks(base_data, pr_data) ==
    [i \in 1..Len(base_data) |->
        row_for(base_data[i], pr_lookup(pr_data),
                has_rich_stats(base_data) \/ has_rich_stats(pr_data))]

(***************************************************************************)
(* run_regime_matrix.py: constants, arguments, commands                    *)
(***************************************************************************)
REGIMES == <<"hot", "pressure", "thrash">>

BASE_FEATURES ==
    <<"--no-default-features", "--features", "replacement_lru", "--features", "page-4k">>

DIRECT_EXTRA == <<"--features", "direct-io">>

HEAVY_PROFILE_BLOCKS ==
    [r \in {"hot", "pressure", "thrash"} |->
        IF r = "hot" THEN 2097152 ELSE IF r = "pressure" THEN 4194304 ELSE 8388608]

\* the two I/O modes of a regime, in the order main runs them
Modes == <<"buffered", "direct">>

\* a grid cell is <<mode, regime>>
Cells == {<<m, r>> : m \in {"buffered", "direct"}, r \in {"hot", "pressure", "thrash"}}

\* an optional integer argument: << >> is None, <<n>> is the integer n
None == << >>
Some(n) == <<n>>

\* parse_args: the argument namespaces the orchestrator is invoked with
ArgSets ==
    {[iterations |-> 50, profile |-> "capped",
      phase1_ops |-> None, mixed_ops |-> None, durability_ops |-> Some(0)],
     [iterations |-> 50, profile |-> "heavy",
      phase1_ops |-> None, mixed_ops |-> Some(7), durability_ops |-> None]}

\* f"buffered_{regime}.json", f"direct_{regime}.json" under output_dir
raw_file(mode, regime) ==
    IF mode = "buffered"
    THEN (IF regime = "hot" THEN "buffered_hot.json"
          ELSE IF regime = "pressure" THEN "buffered_pressure.json"
          ELSE "buffered_thrash.json")
    ELSE (IF regime = "hot" THEN "direct_hot.json"
          ELSE IF regime = "pressure" THEN "direct_pressure.json"
          ELSE "direct_thrash.json")

\* f"compare_{regime}.md" under output_dir
compare_file(regime) ==
    IF regime = "hot" THEN "compare_hot.md"
    ELSE IF regime = "pressure" THEN "compare_pressure.md"
    ELSE "compare_thrash.md"

\* phase1_ops, mixed_ops, durability_ops as run_bench_cell resolves them
resolved_ops(args) ==
    IF args.profile = "heavy"
    THEN [phase1 |-> IF args.phase1_ops # None THEN args.phase1_ops ELSE Some(20000),
          mixed |-> IF args.mixed_ops # None THEN args.mixed_ops ELSE Some(10000),
          durability |-> IF args.durability_ops # None THEN args.durability_ops ELSE Some(5000)]
    ELSE [phase1 |-> args.phase1_ops, mixed |-> args.mixed_ops,
          durability |-> args.durability_ops]

\* a flag followed by str(value), or nothing when the value is None
opt_flag(flag, v) == IF v = None THEN << >> ELSE <<flag, ToString(v[1])>>

\* the argument list cmd built by run_bench_cell (cmd_str is its shlex.join)
bench_cmd(regime, features_extra, args) ==
    <<"cargo", "bench", "--bench", "io_patterns">> \o BASE_FEATURES \o features_extra
    \o <<"--">> \o <<ToString(args.iterations), "12", "--json">>
    \o (IF args.profile = "heavy"
        THEN <<"--working-set-blocks", ToString(HEAVY_PROFILE_BLOCKS[regime])>>
        ELSE <<"--regime", regime>>)
    \o opt_flag("--phase1-ops", resolved_ops(args).phase1)
    \o opt_flag("--mixed-ops", resolved_ops(args).mixed)
    \o opt_flag("--durability-ops", resolved_ops(args).durability)

\* the argument list cmd built by run_compare
compare_cmd_of(regime) ==
    <<"python3", "scripts/compare_benchmarks.py", raw_file("buffered", regime),
      raw_file("direct", regime), compare_file(regime), regime>>

(***************************************************************************)
(* The measured subject: what one child process may print and return.      *)
(***************************************************************************)
\* the ResultSets the subject emits in the sweeps of the model
Payloads ==
    {<<PlainRecord("a", 1000), PlainRecord("b", 1000)>>,
     <<PlainRecord("a", 1050), PlainRecord("b", 0)>>,
     <<PlainRecord("a", 1051)>>}

\* a line of captured stdout: plain log text, log text that starts with "["
\* without ending with "]" (such as "[INFO] starting"), text that starts with
\* "[" and ends with "]" without being JSON, or a JSON array literal; pad
\* tells whether whitespace surrounds the text
LogLine == [kind |-> "log", json |-> << >>, pad |-> FALSE]
TaggedLogLine == [kind |-> "tagged_log", json |-> << >>, pad |-> FALSE]
BracketedText == [kind |-> "bracketed_text", json |-> << >>, pad |-> FALSE]
ArrayLine(rs) == [kind |-> "array", json |-> rs, pad |-> FALSE]

\* the line as the child printed it, indented
Padded(line) == [line EXCEPT !.pad = TRUE]

\* the (returncode, stdout) pairs a subject invocation may end with
SubjectOutputs ==
    {[returncode |-> 0, stdout |-> <<LogLine, LogLine, LogLine, ArrayLine(rs)>>] : rs \in Payloads}
    \cup {[returncode |-> 1, stdout |-> <<LogLine>>],
          [returncode |-> 0, stdout |-> <<LogLine, LogLine>>],
          [returncode |-> 0, stdout |-> <<LogLine, BracketedText, ArrayLine(<<PlainRecord("a", 1000)>>)>>]}

\* line.strip()
strip(line) == [line EXCEPT !.pad = FALSE]

\* line.startswith("[") and line.endswith("]")
startswith_bracket(line) == ~line.pad /\ line.kind \in {"tagged_log", "bracketed_text", "array"}
endswith_bracket(line) == ~line.pad /\ line.kind \in {"bracketed_text", "array"}
is_bracketed(line) == startswith_bracket(line) /\ endswith_bracket(line)

\* the test of the scanning loop on one line of stdout, kept as it came
\* (no strip)
line_matches_unstripped(line) == is_bracketed(line)

\* the test of the scanning loop on one line of stdout
line_matches(line) == is_bracketed(strip(line))

\* json.loads(line): the parsed array, or the JSONDecodeError
json_loads(line) ==
    IF line.kind = "array" THEN [ok |-> TRUE, value |-> line.json]
    ELSE [ok |-> FALSE, value |-> << >>]

\* indexes of the bracketed lines of a captured stdout
bracketed_at(stdout) == {i \in 1..Len(stdout) : line_matches(stdout[i])}

\* the least element of a non-empty set of naturals
Least(S) == CHOOSE i \in S : \A j \in S : i <= j

\* run_bench_cell after the command is built: the ResultSet it returns, or
\* the RuntimeError it raises
bench_outcome(out) ==
    IF out.returncode # 0 THEN [error |-> "bench failed", data |-> << >>]
    ELSE IF bracketed_at(out.stdout) = {} THEN [error |-> "No JSON output", data |-> << >>]
    ELSE IF ~json_loads(strip(out.stdout[Least(bracketed_at(out.stdout))])).ok
         THEN [error |-> "Bad JSON", data |-> << >>]
    ELSE [error |-> "none",
          data |-> json_loads(strip(out.stdout[Least(bracketed_at(out.stdout))])).value]

\* the lines a captured stdout of the bounded set is made of: log lines, a
\* bracketed non-JSON line, payloads (one empty, one indented)
ExtPayloads == {<<PlainRecord("x", 42)>>, <<PlainRecord("y", 7)>>, << >>}
ExtLines ==
    {LogLine, TaggedLogLine, BracketedText, Padded(ArrayLine(<<PlainRecord("x", 42)>>))}
    \cup {ArrayLine(rs) : rs \in ExtPayloads}
ExtOutputs ==
    {[returncode |-> rc, stdout |-> out] : rc \in {0, 1}, out \in SeqsUpTo(ExtLines, MaxLines)}

\* the environment of one invocation of a sequence of sweeps into the same
\* directory: the subject's build emits one fixed ResultSet for every cell
\* while the comparator works or fails, or the subject fails every time, or
\* it fails now and then
RerunEnvs ==
    {[subject |-> {[returncode |-> 0, stdout |-> <<LogLine, ArrayLine(rs)>>]},
      comparator |-> {ok}] :
        rs \in {<<PlainRecord("a", 1000)>>, <<PlainRecord("a", 1051)>>}, ok \in BOOLEAN}
    \cup {[subject |-> {[returncode |-> 1, stdout |-> <<LogLine>>]}, comparator |-> {TRUE}],
          [subject |-> {[returncode |-> 0,
                         stdout |-> <<LogLine, ArrayLine(<<PlainRecord("a", 1000)>>)>>],
                        [returncode |-> 1, stdout |-> <<LogLine>>]},
           comparator |-> {TRUE}]}

\* the three invokers of the harness
Invokers == {"run_bench_cell", "run_benchmark", "extract_json"}

\* the exception an invoker raises for a cause: run_bench_cell and
\* run_benchmark wrap every cause in a RuntimeError; run_buffer_pool lets
\* the CalledProcessError of run_command and the JSONDecodeError of
\* extract_json propagate
raised(invoker, cause) ==
    IF invoker = "run_bench_cell"
    THEN [type |-> "RuntimeError",
          text |-> CASE cause = "exit" -> "bench failed"
                     [] cause = "json" -> "Bad JSON"
                     [] OTHER -> "No JSON output"]
    ELSE IF invoker = "run_benchmark"
    THEN [type |-> "RuntimeError",
          text |-> CASE cause = "exit" -> "Benchmark failed"
                     [] cause = "json" -> "Invalid JSON"
                     [] OTHER -> "No JSON output found"]
    ELSE CASE cause = "exit" -> [type |-> "CalledProcessError", text |-> ""]
           [] cause = "json" -> [type |-> "JSONDecodeError", text |-> ""]
           [] OTHER -> [type |-> "RuntimeError", text |-> "Failed to locate JSON payload"]

(***************************************************************************)
(* Provenance: detect_filesystem, detect_cgroup_context, run metadata      *)
(***************************************************************************)
\* the cgroup files in the order detect_cgroup_context reads them
CgroupFiles == <<"memory.max", "memory.swap.max", "memory.current", "cpu.max">>

\* the hosts of the model: what df prints, whether /proc/self/cgroup has a
\* "0::" line and the cgroup directory exists, what each cgroup file holds
\* (None when the file does not exist), and the index in CgroupFiles of the
\* first file whose read raises (0 when every read succeeds)
Hosts ==
    {[df_ok |-> FALSE, device |-> "", fstype |-> "",
      cgroup_line |-> FALSE, cgroup_dir |-> FALSE, path |-> "",
      files |-> <<None, None, None, None>>, read_error |-> 0],
     [df_ok |-> TRUE, device |-> "/dev/sda1", fstype |-> "ext4",
      cgroup_line |-> TRUE, cgroup_dir |-> TRUE, path |-> "/bench.slice",
      files |-> <<Some("4096"), Some("max"), Some("512"), None>>, read_error |-> 0]}

\* the machines on which the detection is exercised: with or without a
\* "0::" line and a cgroup directory, memory.max and memory.swap.max absent,
\* "max" or a byte count, and any one read of an existing file failing
\* (read_text raising OSError)
ProbeHosts ==
    {h \in [df_ok : {FALSE}, device : {""}, fstype : {""},
            cgroup_line : BOOLEAN, cgroup_dir : BOOLEAN, path : {"/bench.slice"},
            files : {<<m, s, Some("512"), None>> :
                        m \in {None, Some("max"), Some("4096")},
                        s \in {None, Some("max"), Some("4096")}},
            read_error : 0..Len(CgroupFiles)] :
        h.read_error = 0 \/ h.files[h.read_error] # None}

\* detect_filesystem: <<device, fstype>> standing for f"{device} ({fstype})",
\* or "unknown" when df fails or prints too little
detect_filesystem(host) ==
    IF host.df_ok THEN <<host.device, host.fstype>> ELSE <<"unknown">>

\* read_val for the k-th cgroup file: its content once the assignment was
\* reached, None when an earlier read raised
read_val(host, k) ==
    IF host.read_error = 0 \/ k < host.read_error THEN host.files[k] ELSE None

\* detect_cgroup_context: the context dict; an exception leaves the fields
\* assigned so far and the initial value of the others
detect_cgroup_context(host) ==
    IF host.cgroup_line /\ host.cgroup_dir
    THEN [detected |-> TRUE, path |-> host.path,
          memory_max |-> read_val(host, 1), memory_swap_max |-> read_val(host, 2),
          memory_current |-> read_val(host, 3), cpu_max |-> read_val(host, 4),
          limited |-> /\ host.read_error = 0
                      /\ \/ host.files[1] \notin {None, Some("max")}
                         \/ host.files[2] \notin {None, Some("max")}]
    ELSE [detected |-> FALSE, path |-> "",
          memory_max |-> None, memory_swap_max |-> None,
          memory_current |-> None, cpu_max |-> None, limited |-> FALSE]

\* an "ops" entry that records the arguments as given, whatever the profile
metadata_ops_as_given(args) ==
    [phase1 |-> args.phase1_ops, mixed |-> args.mixed_ops, durability |-> args.durability_ops]

\* the "ops" entry of the metadata: << >> stands for "auto"
metadata_ops(args) ==
    IF args.profile = "heavy"
    THEN [phase1 |-> IF args.phase1_ops # None THEN args.phase1_ops ELSE Some(20000),
          mixed |-> IF args.mixed_ops # None THEN args.mixed_ops ELSE Some(10000),
          durability |-> IF args.durability_ops # None THEN args.durability_ops ELSE Some(5000)]
    ELSE [phase1 |-> args.phase1_ops, mixed |-> args.mixed_ops,
          durability |-> args.durability_ops]

\* build_run_metadata; generated_at_utc is the number of the invocation,
\* which like the clock differs from one invocation to the next
build_run_metadata(args, host, now) ==
    [generated_at_utc |-> now,
     iterations |-> args.iterations,
     profile |-> args.profile,
     regimes |-> REGIMES,
     ops |-> metadata_ops(args),
     filesystem_device |-> detect_filesystem(host),
     cgroup |-> detect_cgroup_context(host),
     base_features |-> BASE_FEATURES,
     direct_extra_features |-> DIRECT_EXTRA,
     commands |-> << >>]

\* render_compare_metadata_md: the fields the header shows; the cgroup lines
\* only when a cgroup was detected, the command lines only when the manifest
\* has commands for the regime
render_compare_metadata_md(metadata, regime) ==
    [generated_at_utc |-> metadata.generated_at_utc,
     regime |-> regime,
     iterations |-> metadata.iterations,
     profile |-> metadata.profile,
     ops |-> metadata.ops,
     filesystem_device |-> metadata.filesystem_device,
     cgroup |-> IF metadata.cgroup.detected THEN <<metadata.cgroup>> ELSE << >>,
     commands |-> IF regime \in DOMAIN metadata.commands
                  THEN <<metadata.commands[regime]>> ELSE << >>]

(***************************************************************************)
(* The per-regime delta table and the aggregate summary                    *)
(***************************************************************************)
\* direct_map = {r["name"]: r["value"] for r in direct}
direct_map(direct) == [n \in DOMAIN pr_lookup(direct) |-> pr_lookup(direct)[n].value]

\* direct_map.get(name, b)
direct_or(direct, item) ==
    IF item.name \in DOMAIN direct_map(direct) THEN direct_map(direct)[item.name]
    ELSE item.value

\* summarise_regime: pct of each buffered item, 0 when b is 0, and its flag
summarise_regime(buffered, direct) ==
    [i \in 1..Len(buffered) |->
        LET b == buffered[i].value
            d == direct_or(direct, buffered[i])
            pct == IF b # 0 THEN Frac((d - b) * 100, b) ELSE Frac(0, 1)
        IN [name |-> buffered[i].name, pct |-> pct,
            flag |-> IF FracLt(pct, -5) THEN "faster"
                     ELSE IF FracGt(pct, 5) THEN "slower" ELSE ""]]

\* the aggregate summary divides by r["value"] unguarded: it raises
\* ZeroDivisionError exactly when some buffered record has value 0
aggregate_raises(buffered) == \E i \in 1..Len(buffered) : buffered[i].value = 0

\* the percent change of the aggregate summary for a non-zero base value
aggregate_pct(direct, item) ==
    Frac((direct_or(direct, item) - item.value) * 100, item.value)

\* one line of the aggregate summary: the faster / neutral / slower counts
aggregate_counts(buffered, direct) ==
    LET faster == Cardinality({i \in 1..Len(buffered) :
                                  FracLt(aggregate_pct(direct, buffered[i]), -5)})
        slower == Cardinality({i \in 1..Len(buffered) :
                                  FracGt(aggregate_pct(direct, buffered[i]), 5)})
    IN [faster |-> faster, slower |-> slower,
        neutral |-> Len(buffered) - faster - slower, total |-> Len(buffered)]

(***************************************************************************)
(* State of one call of compare_benchmarks(base_file, pr_file).            *)
(***************************************************************************)
VARIABLES
    cmp_pc,      \* position in compare_benchmarks: "load", "loop", "returned"
    base_data,   \* load_json(base_file)
    pr_data,     \* load_json(pr_file)
    lookup,      \* the dict pr_lookup
    rich,        \* the flag rich
    lines,       \* the list lines: lines[1] is the header, then one row per iteration
    pos,         \* index into base_data of the item the for loop takes next
    changes      \* the values returned by the calls of calculate_change, in call order

cmp_vars == <<cmp_pc, base_data, pr_data, lookup, rich, lines, pos, changes>>

(***************************************************************************)
(* State of the orchestrator: main() of run_regime_matrix.py and the       *)
(* output directory it works on.                                           *)
(***************************************************************************)
VARIABLES
    pc,            \* position in main; "idle" before the first invocation
    sweep,         \* number of invocations of the orchestrator so far
    host,          \* the machine the sweeps run on
    subject,       \* the (returncode, stdout) pairs the measured executable may end with
    args,          \* the parsed arguments of the current invocation
    regime_i,      \* index in REGIMES of the loop variable regime
    buffered,      \* local buffered (a ResultSet)
    direct,        \* local direct (a ResultSet)
    cmds,          \* locals buffered_cmd, direct_cmd, compare_cmd
    metadata,      \* local metadata (the RunManifest in memory)
    all_buffered,  \* dict all_buffered, regime -> ResultSet
    all_direct,    \* dict all_direct, regime -> ResultSet
    stderr,        \* error reports, warnings and summary lines printed so far
    exit_status,   \* exit status of the last finished invocation, -1 while running
    raw,           \* the files <mode>_<regime>.json of the output directory
    reports,       \* the files compare_<regime>.md of the output directory
    manifest,      \* the file run_manifest.json of the output directory
    log,           \* history of the current invocation: subject invocations,
                   \* artifact writes, comparator runs, manifest writes
    children,      \* the cells whose child process is running
    comparator,    \* the outcomes (success or not) a comparator run may have
    prev           \* how the previous invocation ended (empty before the second)

sweep_vars == <<pc, sweep, host, subject, args, regime_i, buffered, direct, cmds, metadata,
                all_buffered, all_direct, stderr, exit_status, raw, reports, manifest, log,
                children, comparator, prev>>

(***************************************************************************)
(* State of one subject invocation seen from the invoker: the child's      *)
(* result and the scan of its captured stdout.                             *)
(***************************************************************************)
VARIABLES
    ext_invoker,   \* which invoker runs: "run_bench_cell", "run_benchmark", "extract_json"
    ext_out,       \* the finished child: returncode and captured stdout
    ext_pc,        \* "run", "scan", "returned", "raised"
    ext_i,         \* index of the line the for loop takes next
    ext_looked,    \* indexes of the lines the loop has tested
    ext_result,    \* what the invoker returned or raised
    ext_files      \* the files the invoker has written

ext_vars == <<ext_invoker, ext_out, ext_pc, ext_i, ext_looked, ext_result, ext_files>>

(***************************************************************************)
(* State of one run of a report renderer over stored artifacts.            *)
(***************************************************************************)
VARIABLES
    rnd_kind,      \* which renderer runs: "io_mode", "scaling", "table"
    rnd_in,        \* the stored artifacts it reads
    rnd_pc,        \* "load", "charts", "loop", "done", "raised"
    rnd_i,         \* index of the loop variable (regime, row)
    rnd_out,       \* the charts saved, the table rows emitted
    rnd_msgs       \* warnings printed and the exception raised

rnd_vars == <<rnd_kind, rnd_in, rnd_pc, rnd_i, rnd_out, rnd_msgs>>

(***************************************************************************)
(* State of one run of the buffer-pool policy runner: main() of            *)
(* bench/run_buffer_pool.py and the platform directory it works on.        *)
(***************************************************************************)
VARIABLES
    pol_pc,        \* "load", "json_run", "text_run", "record", "write", "done", "raised"
    pol_args,      \* the parsed arguments
    pol_metadata,  \* local metadata (a dict)
    pol_i,         \* index in args.policies of the loop variable policy_key
    pol_local,     \* locals json_path, log_rel, hit_rates of the iteration
    pol_disk,      \* metadata.json, <policy>.json and <policy>.txt of the directory
    pol_old        \* metadata.json as it was when the run started

pol_vars == <<pol_pc, pol_args, pol_metadata, pol_i, pol_local, pol_disk, pol_old>>

vars == <<sweep_vars, cmp_vars, ext_vars, rnd_vars, pol_vars>>

(***************************************************************************)
(* compare_benchmarks(base_file, pr_file), one loop iteration per step.    *)
(***************************************************************************)
\* the two input files hold any pair of ResultSets of the bounded sets
CompareInit ==
    /\ cmp_pc = "load"
    /\ base_data \in BaseSets
    /\ pr_data \in PrSets
    /\ lookup = << >>
    /\ rich = FALSE
    /\ lines = << >>
    /\ pos = 1
    /\ changes = << >>

\* lines 64-80: load both files, build pr_lookup, decide rich, append the header
CompareLoad ==
    /\ cmp_pc = "load"
    /\ lookup' = pr_lookup(pr_data)
    /\ rich' = (has_rich_stats(base_data) \/ has_rich_stats(pr_data))
    /\ lines' = <<[header |-> header_line(has_rich_stats(base_data) \/ has_rich_stats(pr_data))]>>
    /\ cmp_pc' = "loop"
    /\ UNCHANGED <<pol_vars, base_data, pr_data, pos, changes, sweep_vars, ext_vars, rnd_vars>>

\* the loop body that appends nothing for a benchmark missing from PR
CompareRowDropsMissing ==
    /\ cmp_pc = "loop"
    /\ pos <= Len(base_data)
    /\ lines' = IF base_data[pos].name \in DOMAIN lookup
                THEN Append(lines, row_for(base_data[pos], lookup, rich))
                ELSE lines
    /\ changes' = IF base_data[pos].name \in DOMAIN lookup
                  THEN Append(changes, calculate_change(base_data[pos].value,
                                                        lookup[base_data[pos].name].value))
                  ELSE changes
    /\ pos' = pos + 1
    /\ UNCHANGED <<pol_vars, cmp_pc, base_data, pr_data, lookup, rich, sweep_vars, ext_vars, rnd_vars>>

\* lines 82-123: one iteration of "for base_item in base_data"
CompareRow ==
    /\ cmp_pc = "loop"
    /\ pos <= Len(base_data)
    /\ lines' = Append(lines, row_for(base_data[pos], lookup, rich))
    /\ changes' = IF base_data[pos].name \in DOMAIN lookup
                  THEN Append(changes, calculate_change(base_data[pos].value,
                                                        lookup[base_data[pos].name].value))
                  ELSE changes
    /\ pos' = pos + 1
    /\ UNCHANGED <<pol_vars, cmp_pc, base_data, pr_data, lookup, rich, sweep_vars, ext_vars, rnd_vars>>

\* line 125: the loop is exhausted, the joined lines are returned
CompareReturn ==
    /\ cmp_pc = "loop"
    /\ pos > Len(base_data)
    /\ cmp_pc' = "returned"
    /\ UNCHANGED <<pol_vars, base_data, pr_data, lookup, rich, lines, pos, changes, sweep_vars, ext_vars, rnd_vars>>

(***************************************************************************)
(* main() of run_regime_matrix.py, one statement per step.                 *)
(***************************************************************************)
\* a file that does not exist, a file with the given content
NoFile == [exists |-> FALSE, content |-> << >>]
File(c) == [exists |-> TRUE, content |-> <<c>>]

\* the loop variable regime
regime == REGIMES[regime_i]

NoArgs == [iterations |-> 0, profile |-> "", phase1_ops |-> None, mixed_ops |-> None,
           durability_ops |-> None]
NoCmds == [buffered |-> << >>, direct |-> << >>, compare |-> << >>]

\* an entry of the history: what happened, to which cells, with which data
Event(e, cs, d) == [event |-> e, cells |-> cs, data |-> d, command |-> << >>]

\* the entry of a subject invocation: the cell and the command line run
Invoke(c, cmd) == [event |-> "invoke", cells |-> {c}, data |-> << >>, command |-> cmd]

\* the cells whose commands a manifest lists
listed_cells(meta) ==
    {c \in Cells : c[2] \in DOMAIN meta.commands}

\* before the first invocation: an empty output directory
SweepInit ==
    /\ pc = "idle"
    /\ sweep = 0
    /\ host \in Hosts
    /\ subject = SubjectOutputs
    /\ args = NoArgs
    /\ regime_i = 1
    /\ buffered = << >>
    /\ direct = << >>
    /\ cmds = NoCmds
    /\ metadata = build_run_metadata(NoArgs, host, 0)
    /\ all_buffered = << >>
    /\ all_direct = << >>
    /\ stderr = << >>
    /\ exit_status = -1
    /\ raw = [c \in Cells |-> NoFile]
    /\ reports = [r \in {"hot", "pressure", "thrash"} |-> NoFile]
    /\ manifest = NoFile
    /\ log = << >>
    /\ children = {}
    /\ comparator = BOOLEAN
    /\ prev = << >>

\* the comparator is not running
CompareIdle ==
    /\ cmp_pc = "returned"
    /\ base_data = << >>
    /\ pr_data = << >>
    /\ lookup = << >>
    /\ rich = FALSE
    /\ lines = << >>
    /\ pos = 1
    /\ changes = << >>

\* lines 299-327 and 330-331: a new process parses its arguments a on the
\* machine h, creates the output directory if absent and builds the metadata
ProcessStart(a, h) ==
    /\ sweep' = sweep + 1
    /\ args' = a
    /\ host' = h
    /\ metadata' = build_run_metadata(a, h, sweep + 1)
    /\ regime_i' = 1
    /\ buffered' = << >>
    /\ direct' = << >>
    /\ cmds' = NoCmds
    /\ all_buffered' = << >>
    /\ all_direct' = << >>
    /\ stderr' = << >>
    /\ exit_status' = -1
    /\ log' = << >>
    /\ pc' = "write_manifest"
    /\ UNCHANGED <<pol_vars, cmp_vars, ext_vars, rnd_vars, children, raw, reports, manifest>>

\* the first invocation
Begin ==
    /\ pc = "idle"
    /\ \E a \in ArgSets : ProcessStart(a, host)
    /\ UNCHANGED <<subject, comparator, prev>>

\* a first write of the manifest that loads the existing file and keeps the
\* commands it lists
WriteInitialManifestMerging ==
    /\ pc = "write_manifest"
    /\ LET merged == IF manifest.exists
                     THEN [metadata EXCEPT !.commands = manifest.content[1].commands]
                     ELSE metadata
       IN /\ manifest' = File(merged)
          /\ metadata' = merged
          /\ log' = Append(log, Event("manifest", listed_cells(merged), << >>))
    /\ pc' = "buffered_run"
    /\ UNCHANGED <<pol_vars, cmp_vars, ext_vars, rnd_vars, children, comparator, prev, sweep, host, subject, args,
                   regime_i, buffered, direct, cmds, all_buffered, all_direct, stderr,
                   exit_status, raw, reports>>

\* line 328: the manifest is written with an empty commands map
WriteInitialManifest ==
    /\ pc = "write_manifest"
    /\ manifest' = File(metadata)
    /\ log' = Append(log, Event("manifest", listed_cells(metadata), << >>))
    /\ pc' = "buffered_run"
    /\ UNCHANGED <<pol_vars, cmp_vars, ext_vars, rnd_vars, children, comparator, prev, sweep, host, subject, args, regime_i, buffered, direct, cmds, metadata,
                   all_buffered, all_direct, stderr, exit_status, raw, reports>>

\* run_bench_cell that adds a flag to the command line when the cgroup of
\* the machine limits memory
StartCellHostAware(mode, features_extra) ==
    /\ <<mode, regime>> \notin children
    /\ children' = children \cup {<<mode, regime>>}
    /\ log' = Append(log, Invoke(<<mode, regime>>,
                                 bench_cmd(regime, features_extra, args)
                                    \o (IF detect_cgroup_context(host).limited
                                        THEN <<"--low-memory">> ELSE << >>)))
    /\ stderr' = Append(stderr, [kind |-> "running",
                                 command |-> bench_cmd(regime, features_extra, args)
                                    \o (IF detect_cgroup_context(host).limited
                                        THEN <<"--low-memory">> ELSE << >>)])
    /\ UNCHANGED <<pol_vars, cmp_vars, ext_vars, rnd_vars, comparator, prev, pc, sweep, host, subject, args, regime_i,
                   buffered, direct, cmds, metadata, all_buffered, all_direct,
                   exit_status, raw, reports, manifest>>

\* lines 126-164: run_bench_cell builds the command line of the cell
\* <<mode, regime>>, prints it ("running: ...") and starts the child with
\* subprocess.run
StartCell(mode, features_extra) ==
    /\ <<mode, regime>> \notin children
    /\ children' = children \cup {<<mode, regime>>}
    /\ log' = Append(log, Invoke(<<mode, regime>>, bench_cmd(regime, features_extra, args)))
    /\ stderr' = Append(stderr, [kind |-> "running",
                                 command |-> bench_cmd(regime, features_extra, args)])
    /\ UNCHANGED <<pol_vars, cmp_vars, ext_vars, rnd_vars, comparator, prev, pc, sweep, host, subject, args, regime_i, buffered,
                   direct, cmds, metadata, all_buffered, all_direct, exit_status, raw,
                   reports, manifest>>

\* run_bench_cell whose caller swallows the RuntimeError and goes on with an
\* empty ResultSet
RunCellSwallowsError(mode, features_extra, next_pc) ==
    \E out \in subject :
        LET res == bench_outcome(out)
            cmd == bench_cmd(regime, features_extra, args)
        IN /\ <<mode, regime>> \in children
           /\ children' = children \ {<<mode, regime>>}
           /\ buffered' = IF mode = "buffered" THEN res.data ELSE buffered
           /\ direct' = IF mode = "direct" THEN res.data ELSE direct
           /\ cmds' = [cmds EXCEPT ![mode] = cmd]
           /\ pc' = next_pc
           /\ stderr' = IF res.error = "none" THEN stderr
                        ELSE Append(stderr, [kind |-> "error", text |-> res.error,
                                             command |-> IF out.returncode # 0 THEN cmd ELSE << >>,
                                             child_stderr |-> out.returncode # 0])
           /\ UNCHANGED <<pol_vars, cmp_vars, ext_vars, rnd_vars, comparator, prev, sweep, host, subject, args, regime_i, metadata,
                          all_buffered, all_direct, exit_status, raw, reports, manifest, log>>

\* run_bench_cell that starts the child without waiting for its end (Popen
\* read to end of stream, no wait)
RunCellNoWait(mode, features_extra, next_pc) ==
    \E out \in subject :
        LET res == bench_outcome(out)
            cmd == bench_cmd(regime, features_extra, args)
        IN /\ <<mode, regime>> \in children
           /\ children' = children
           /\ IF res.error = "none"
              THEN /\ buffered' = IF mode = "buffered" THEN res.data ELSE buffered
                   /\ direct' = IF mode = "direct" THEN res.data ELSE direct
                   /\ cmds' = [cmds EXCEPT ![mode] = cmd]
                   /\ pc' = next_pc
                   /\ UNCHANGED <<stderr, exit_status>>
              ELSE /\ stderr' = Append(stderr, [kind |-> "error", text |-> res.error,
                                                command |-> IF out.returncode # 0 THEN cmd ELSE << >>,
                                                child_stderr |-> out.returncode # 0])
                   /\ exit_status' = 1
                   /\ pc' = "failed"
                   /\ UNCHANGED <<buffered, direct, cmds>>
           /\ UNCHANGED <<pol_vars, cmp_vars, ext_vars, rnd_vars, comparator, prev, sweep, host, subject, args, regime_i, metadata,
                          all_buffered, all_direct, raw, reports, manifest, log>>

\* lines 171-180: subprocess.run returns when the child of the cell
\* <<mode, regime>> has ended; a RuntimeError is not caught by main, the
\* process ends with status 1.  On a non-zero exit the command and the
\* child's stderr are printed first; the other two errors surface as the
\* traceback of the RuntimeError only, which names the label and the regime
\* and shows neither the command nor the child's captured stderr.
RunCell(mode, features_extra, next_pc) ==
    \E out \in subject :
        LET res == bench_outcome(out)
            cmd == bench_cmd(regime, features_extra, args)
        IN /\ <<mode, regime>> \in children
           /\ children' = children \ {<<mode, regime>>}
           /\ IF res.error = "none"
              THEN /\ buffered' = IF mode = "buffered" THEN res.data ELSE buffered
                   /\ direct' = IF mode = "direct" THEN res.data ELSE direct
                   /\ cmds' = [cmds EXCEPT ![mode] = cmd]
                   /\ pc' = next_pc
                   /\ UNCHANGED <<stderr, exit_status>>
              ELSE /\ stderr' = Append(stderr, [kind |-> "error", text |-> res.error,
                                                command |-> IF out.returncode # 0 THEN cmd ELSE << >>,
                                                child_stderr |-> out.returncode # 0])
                   /\ exit_status' = 1
                   /\ pc' = "failed"
                   /\ UNCHANGED <<buffered, direct, cmds>>
           /\ UNCHANGED <<pol_vars, cmp_vars, ext_vars, rnd_vars, comparator, prev, sweep, host, subject, args, regime_i, metadata,
                          all_buffered, all_direct, raw, reports, manifest, log>>

\* a write of the raw artifact that opens the file for appending
WriteCellAppends(mode, data, next_pc) ==
    /\ raw' = [raw EXCEPT ![<<mode, regime>>] =
                  [exists |-> TRUE, content |-> raw[<<mode, regime>>].content \o <<data>>]]
    /\ log' = Append(log, Event("artifact", {<<mode, regime>>}, data))
    /\ pc' = next_pc
    /\ UNCHANGED <<pol_vars, cmp_vars, ext_vars, rnd_vars, children, comparator, prev, sweep, host, subject, args,
                   regime_i, buffered, direct, cmds, metadata, all_buffered, all_direct, stderr,
                   exit_status, reports, manifest>>

\* buffered_file.write_text / direct_file.write_text
WriteCell(mode, data, next_pc) ==
    /\ raw' = [raw EXCEPT ![<<mode, regime>>] = File(data)]
    /\ log' = Append(log, Event("artifact", {<<mode, regime>>}, data))
    /\ pc' = next_pc
    /\ UNCHANGED <<pol_vars, cmp_vars, ext_vars, rnd_vars, children, comparator, prev, sweep, host, subject, args, regime_i, buffered, direct, cmds, metadata,
                   all_buffered, all_direct, stderr, exit_status, reports, manifest>>

\* line 338, the call
StartBuffered == pc = "buffered_run" /\ StartCell("buffered", << >>)

\* line 338, the return
RunBuffered == pc = "buffered_run" /\ RunCell("buffered", << >>, "buffered_write")

\* line 339
WriteBuffered == pc = "buffered_write" /\ WriteCell("buffered", buffered, "direct_run")

\* line 344, the call
StartDirect == pc = "direct_run" /\ StartCell("direct", DIRECT_EXTRA)

\* line 344, the return
RunDirect == pc = "direct_run" /\ RunCell("direct", DIRECT_EXTRA, "direct_write")

\* line 345
WriteDirect == pc = "direct_write" /\ WriteCell("direct", direct, "compare")

\* the report compare_benchmarks.py writes: title, table, notes, no metadata
compare_report(base, pr) ==
    [headers |-> << >>, table |-> compare_benchmarks(base, pr)]

\* run_compare that raises on a non-zero exit status of the comparator
RunCompareFatal ==
    /\ pc = "compare"
    /\ \E ok \in comparator :
          /\ reports' = IF ok
                        THEN [reports EXCEPT ![regime] =
                                 File(compare_report(raw[<<"buffered", regime>>].content[1],
                                                     raw[<<"direct", regime>>].content[1]))]
                        ELSE reports
          /\ stderr' = IF ok THEN stderr
                       ELSE Append(stderr, [kind |-> "error", text |-> "compare failed",
                                            command |-> compare_cmd_of(regime),
                                            child_stderr |-> TRUE])
          /\ log' = Append(log, Event(IF ok THEN "compare" ELSE "compare_failed",
                                      {<<"buffered", regime>>, <<"direct", regime>>}, << >>))
          /\ pc' = IF ok THEN "manifest_update" ELSE "failed"
          /\ exit_status' = IF ok THEN exit_status ELSE 1
    /\ cmds' = [cmds EXCEPT !.compare = compare_cmd_of(regime)]
    /\ UNCHANGED <<pol_vars, cmp_vars, ext_vars, rnd_vars, children, comparator, prev, sweep, host, subject, args, regime_i, buffered, direct, metadata,
                   all_buffered, all_direct, raw, manifest>>

\* line 350, run_compare: the comparator reads the two artifacts and writes
\* compare_<regime>.md; when it exits non-zero nothing is written, a warning
\* is printed and main goes on
RunCompare ==
    /\ pc = "compare"
    /\ \E ok \in comparator :
          /\ reports' = IF ok
                        THEN [reports EXCEPT ![regime] =
                                 File(compare_report(raw[<<"buffered", regime>>].content[1],
                                                     raw[<<"direct", regime>>].content[1]))]
                        ELSE reports
          /\ stderr' = IF ok THEN stderr
                       ELSE Append(stderr, [kind |-> "warning",
                                            text |-> "compare_benchmarks.py failed",
                                            child_stderr |-> TRUE])
          /\ log' = Append(log, Event(IF ok THEN "compare" ELSE "compare_failed",
                                      {<<"buffered", regime>>, <<"direct", regime>>}, << >>))
    /\ cmds' = [cmds EXCEPT !.compare = compare_cmd_of(regime)]
    /\ pc' = "manifest_update"
    /\ UNCHANGED <<pol_vars, cmp_vars, ext_vars, rnd_vars, children, comparator, prev, sweep, host, subject, args, regime_i, buffered, direct, metadata,
                   all_buffered, all_direct, exit_status, raw, manifest>>

\* metadata["commands"][regime] = {...}
with_commands(meta, r, c) ==
    [meta EXCEPT !.commands =
        [x \in DOMAIN meta.commands \cup {r} |-> IF x = r THEN c ELSE meta.commands[x]]]

\* the update that changes the metadata in memory and leaves the file alone
UpdateManifestMemoryOnly ==
    /\ pc = "manifest_update"
    /\ metadata' = with_commands(metadata, regime, cmds)
    /\ pc' = "prepend"
    /\ UNCHANGED <<pol_vars, cmp_vars, ext_vars, rnd_vars, children, comparator, prev, sweep, host, subject, args, regime_i, buffered, direct, cmds,
                   all_buffered, all_direct, stderr, exit_status, raw, reports,
                   manifest, log>>

\* the update that writes the manifest before the commands are added
UpdateManifestStaleWrite ==
    /\ pc = "manifest_update"
    /\ metadata' = with_commands(metadata, regime, cmds)
    /\ manifest' = File(metadata)
    /\ log' = Append(log, Event("manifest", listed_cells(metadata), << >>))
    /\ pc' = "prepend"
    /\ UNCHANGED <<pol_vars, cmp_vars, ext_vars, rnd_vars, children, comparator, prev, sweep, host, subject, args, regime_i, buffered, direct, cmds,
                   all_buffered, all_direct, stderr, exit_status, raw, reports>>

\* lines 351-356: the commands of the regime enter the metadata and the
\* manifest is rewritten
UpdateManifest ==
    /\ pc = "manifest_update"
    /\ metadata' = with_commands(metadata, regime, cmds)
    /\ manifest' = File(with_commands(metadata, regime, cmds))
    /\ log' = Append(log, Event("manifest",
                                 listed_cells(with_commands(metadata, regime, cmds)), << >>))
    /\ pc' = "prepend"
    /\ UNCHANGED <<pol_vars, cmp_vars, ext_vars, rnd_vars, children, comparator, prev, sweep, host, subject, args, regime_i, buffered, direct, cmds,
                   all_buffered, all_direct, stderr, exit_status, raw, reports>>

\* an annotation rendered from the metadata as built at the start of main,
\* before any command was recorded
PrependMetadataWithoutCommands ==
    /\ pc = "prepend"
    /\ reports' = IF reports[regime].exists
                  THEN [reports EXCEPT ![regime] =
                          File([headers |-> <<render_compare_metadata_md(
                                                  build_run_metadata(args, host, sweep), regime)>>
                                            \o reports[regime].content[1].headers,
                                table |-> reports[regime].content[1].table])]
                  ELSE reports
    /\ pc' = "summarise"
    /\ UNCHANGED <<pol_vars, cmp_vars, ext_vars, rnd_vars, children, comparator, prev, sweep, host, subject, args, regime_i, buffered, direct, cmds, metadata,
                   all_buffered, all_direct, stderr, exit_status, raw, manifest, log>>

\* line 357, prepend_compare_metadata: header + original, nothing when the
\* report does not exist
PrependMetadata ==
    /\ pc = "prepend"
    /\ reports' = IF reports[regime].exists
                  THEN [reports EXCEPT ![regime] =
                          File([headers |-> <<render_compare_metadata_md(metadata, regime)>>
                                            \o reports[regime].content[1].headers,
                                table |-> reports[regime].content[1].table])]
                  ELSE reports
    /\ pc' = "summarise"
    /\ UNCHANGED <<pol_vars, cmp_vars, ext_vars, rnd_vars, children, comparator, prev, sweep, host, subject, args, regime_i, buffered, direct, cmds, metadata,
                   all_buffered, all_direct, stderr, exit_status, raw, manifest, log>>

\* d[k] = v on a Python dict
dict_put(d, k, v) == [x \in DOMAIN d \cup {k} |-> IF x = k THEN v ELSE d[x]]

\* lines 360-362 and the loop header: the delta table is printed, the two
\* ResultSets are kept for the aggregate summary, the loop advances
Summarise ==
    /\ pc = "summarise"
    /\ stderr' = Append(stderr, [kind |-> "delta", rows |-> summarise_regime(buffered, direct)])
    /\ all_buffered' = dict_put(all_buffered, regime, buffered)
    /\ all_direct' = dict_put(all_direct, regime, direct)
    /\ IF regime_i < Len(REGIMES)
       THEN regime_i' = regime_i + 1 /\ pc' = "buffered_run"
       ELSE regime_i' = 1 /\ pc' = "aggregate"
    /\ UNCHANGED <<pol_vars, cmp_vars, ext_vars, rnd_vars, children, comparator, prev, sweep, host, subject, args, buffered, direct, cmds, metadata,
                   exit_status, raw, reports, manifest, log>>

\* lines 366-382: one iteration of the aggregate loop; the unguarded
\* division raises ZeroDivisionError, which ends the process with status 1
Aggregate ==
    /\ pc = "aggregate"
    /\ IF aggregate_raises(all_buffered[regime])
       THEN /\ pc' = "crashed"
            /\ exit_status' = 1
            /\ stderr' = Append(stderr, [kind |-> "traceback", text |-> "ZeroDivisionError"])
            /\ UNCHANGED regime_i
       ELSE /\ stderr' = Append(stderr, [kind |-> "summary", regime |-> regime,
                                         counts |-> aggregate_counts(all_buffered[regime],
                                                                     all_direct[regime])])
            /\ IF regime_i < Len(REGIMES)
               THEN regime_i' = regime_i + 1 /\ pc' = "aggregate"
               ELSE regime_i' = regime_i /\ pc' = "finish"
            /\ UNCHANGED exit_status
    /\ UNCHANGED <<pol_vars, cmp_vars, ext_vars, rnd_vars, children, comparator, prev, sweep, host, subject, args, buffered, direct, cmds, metadata,
                   all_buffered, all_direct, raw, reports, manifest, log>>

\* line 384: main returns, the process ends with status 0
Finish ==
    /\ pc = "finish"
    /\ pc' = "done"
    /\ exit_status' = 0
    /\ UNCHANGED <<pol_vars, cmp_vars, ext_vars, rnd_vars, children, comparator, prev, sweep, host, subject, args, regime_i, buffered, direct, cmds, metadata,
                   all_buffered, all_direct, stderr, raw, reports, manifest, log>>

\* the orchestrator is invoked again with the same arguments into the same
\* output directory, after the previous process has ended; the machine
\* context, the subject's build and the comparator may have changed
BeginAgain ==
    /\ pc \in {"done", "failed", "crashed"}
    /\ sweep < MaxSweeps
    /\ \E h \in Hosts : ProcessStart(args, h)
    /\ \E env \in RerunEnvs :
          /\ subject' = env.subject
          /\ comparator' = env.comparator
    /\ prev' = <<[args |-> args, host |-> host, subject |-> subject, pc |-> pc,
                  log |-> log, raw |-> raw, manifest |-> manifest]>>

Next ==
    \/ Begin
    \/ WriteInitialManifest
    \/ StartBuffered
    \/ RunBuffered
    \/ WriteBuffered
    \/ StartDirect
    \/ RunDirect
    \/ WriteDirect
    \/ RunCompare
    \/ UpdateManifest
    \/ PrependMetadata
    \/ Summarise
    \/ Aggregate
    \/ Finish

(***************************************************************************)
(* One subject invocation: subprocess.run(check=True), then the scan of    *)
(* the captured stdout, one line per step.                                 *)
(***************************************************************************)
NoResult == [returned |-> FALSE, data |-> << >>, error |-> [type |-> "", text |-> ""]]
Returned(d) == [returned |-> TRUE, data |-> d, error |-> [type |-> "", text |-> ""]]
Raised(e) == [returned |-> FALSE, data |-> << >>, error |-> e]

\* no invoker is running
ExtractIdle ==
    /\ ext_invoker = "run_bench_cell"
    /\ ext_out = [returncode |-> 0, stdout |-> << >>]
    /\ ext_pc = "raised"
    /\ ext_i = 1
    /\ ext_looked = {}
    /\ ext_result = NoResult
    /\ ext_files = {}

\* an invoker has built its command; the child will end as ext_out says
ExtractInit ==
    /\ ext_invoker \in Invokers
    /\ ext_out \in ExtOutputs
    /\ ext_pc = "run"
    /\ ext_i = 1
    /\ ext_looked = {}
    /\ ext_result = NoResult
    /\ ext_files = {}

\* subprocess.run(..., check=True) returns or raises CalledProcessError
ExtractRun ==
    /\ ext_pc = "run"
    /\ IF ext_out.returncode # 0
       THEN /\ ext_pc' = "raised"
            /\ ext_result' = Raised(raised(ext_invoker, "exit"))
       ELSE /\ ext_pc' = "scan"
            /\ UNCHANGED ext_result
    /\ UNCHANGED <<pol_vars, ext_invoker, ext_out, ext_i, ext_looked, ext_files, cmp_vars, sweep_vars, rnd_vars>>

\* the scan that returns an empty ResultSet when the bracketed line does
\* not parse
ExtractLineLenient ==
    /\ ext_pc = "scan"
    /\ ext_i <= Len(ext_out.stdout)
    /\ ext_looked' = ext_looked \cup {ext_i}
    /\ LET line == strip(ext_out.stdout[ext_i])
       IN IF line_matches(ext_out.stdout[ext_i])
          THEN /\ ext_pc' = "returned"
               /\ ext_result' = Returned(json_loads(line).value)
               /\ UNCHANGED ext_i
          ELSE /\ ext_i' = ext_i + 1
               /\ UNCHANGED <<ext_pc, ext_result>>
    /\ UNCHANGED <<pol_vars, ext_invoker, ext_out, ext_files, cmp_vars, sweep_vars, rnd_vars>>

\* the scan that goes on to the next line when a bracketed line does not
\* parse
ExtractLineSkipsBadJson ==
    /\ ext_pc = "scan"
    /\ ext_i <= Len(ext_out.stdout)
    /\ ext_looked' = ext_looked \cup {ext_i}
    /\ LET line == strip(ext_out.stdout[ext_i])
       IN IF line_matches(ext_out.stdout[ext_i]) /\ json_loads(line).ok
          THEN /\ ext_pc' = "returned"
               /\ ext_result' = Returned(json_loads(line).value)
               /\ UNCHANGED ext_i
          ELSE /\ ext_i' = ext_i + 1
               /\ UNCHANGED <<ext_pc, ext_result>>
    /\ UNCHANGED <<pol_vars, ext_invoker, ext_out, ext_files, cmp_vars, sweep_vars, rnd_vars>>

\* one iteration of "for line in result.stdout.splitlines()"
ExtractLine ==
    /\ ext_pc = "scan"
    /\ ext_i <= Len(ext_out.stdout)
    /\ ext_looked' = ext_looked \cup {ext_i}
    /\ LET line == strip(ext_out.stdout[ext_i])
       IN IF line_matches(ext_out.stdout[ext_i])
          THEN /\ IF json_loads(line).ok
                  THEN /\ ext_pc' = "returned"
                       /\ ext_result' = Returned(json_loads(line).value)
                  ELSE /\ ext_pc' = "raised"
                       /\ ext_result' = Raised(raised(ext_invoker, "json"))
               /\ UNCHANGED ext_i
          ELSE /\ ext_i' = ext_i + 1
               /\ UNCHANGED <<ext_pc, ext_result>>
    /\ UNCHANGED <<pol_vars, ext_invoker, ext_out, ext_files, cmp_vars, sweep_vars, rnd_vars>>

\* the loop ends without a return
ExtractExhausted ==
    /\ ext_pc = "scan"
    /\ ext_i > Len(ext_out.stdout)
    /\ ext_pc' = "raised"
    /\ ext_result' = Raised(raised(ext_invoker, "none"))
    /\ UNCHANGED <<pol_vars, ext_invoker, ext_out, ext_i, ext_looked, ext_files, cmp_vars, sweep_vars, rnd_vars>>

(***************************************************************************)
(* The report renderers: generate_io_mode_charts.py,                       *)
(* generate_scaling_charts.py, render_replacement_policy_docs.py           *)
(***************************************************************************)
\* x <= y for two fractions
frac_le(x, y) == x.num * y.den <= y.num * x.den

\* the placeholder cell of the renderers
Gap == <<"--">>

POLICY_ORDER == <<"replacement_lru", "replacement_clock", "replacement_sieve">>

Policies == {POLICY_ORDER[i] : i \in 1..Len(POLICY_ORDER)}

THREAD_COUNTS == <<1, 2, 4, 8, 16, 32, 64, 128, 256>>

\* compute_throughput: None without a mean or an operation count and for a
\* mean of 0, else ops / (mean_ns / 1e9); kept in millions per second, the
\* unit both renderers go on with
compute_throughput(mean_ns, ops) ==
    IF mean_ns = None \/ ops = None THEN None
    ELSE IF mean_ns[1] = 0 THEN None
    ELSE Some(Frac(ops[1] * 1000, mean_ns[1]))

\* dict.get(key): the value, or None
dict_get(dict, key) == IF key \in DOMAIN dict THEN Some(dict[key]) ELSE None

\* --- generate_scaling_charts.py ---
\* the ChartSpec of pin_scaling.png
PinSpec == [filename |-> "pin_scaling.png", pattern |-> "Concurrent", total_ops |-> 10000]

\* get_bench_name for a "Concurrent ({} threads, {} ops)" pattern: the name
\* as the triple of its parts
get_bench_name(spec, thread_count) ==
    <<spec.pattern, thread_count, spec.total_ops \div thread_count>>

\* the record names the bounded inputs may hold, the means they may have
ChartKeys == {get_bench_name(PinSpec, THREAD_COUNTS[i]) : i \in 1..MaxChartThreads}
MeanValues == {0, 2000}

\* metadata["policies"] with the JSON it points to: per policy None (no
\* info or no file) or the name -> value map of the file
ScalingInputs ==
    [Policies -> {None} \cup {Some(m) : m \in UNION {[K -> MeanValues] : K \in SUBSET ChartKeys}}]

\* main, lines 319-327: the policies whose map is not empty
scaling_platform_data(input) ==
    [p \in {q \in Policies : input[q] # None /\ DOMAIN input[q][1] # {}} |-> input[p][1]]

\* the point of a policy at a thread count with an absent record drawn at 0
scaling_point_zero_filled(spec, platform_data, policy, thread_count) ==
    IF policy \notin DOMAIN platform_data THEN None
    ELSE IF get_bench_name(spec, thread_count) \notin DOMAIN platform_data[policy]
         THEN Some(Frac(0, 1))
    ELSE compute_throughput(dict_get(platform_data[policy], get_bench_name(spec, thread_count)),
                            Some(spec.total_ops))

\* extract_scaling_data, the body of the inner loop: the throughput in
\* millions, or None
scaling_point(spec, platform_data, policy, thread_count) ==
    IF policy \notin DOMAIN platform_data THEN None
    ELSE compute_throughput(dict_get(platform_data[policy], get_bench_name(spec, thread_count)),
                            Some(spec.total_ops))

extract_scaling_data(spec, platform_data) ==
    [p \in Policies |->
        [i \in 1..Len(THREAD_COUNTS) |-> scaling_point(spec, platform_data, p, THREAD_COUNTS[i])]]

\* create_scaling_chart: the lines plotted, one per policy with a value,
\* each the <<thread count, value>> points that are not None
scaling_chart(spec, platform_data) ==
    LET data == extract_scaling_data(spec, platform_data)
        drawn(p) == {i \in 1..Len(THREAD_COUNTS) : data[p][i] # None}
    IN [filename |-> spec.filename,
        plotted |-> [p \in {q \in Policies : drawn(q) # {}} |->
                        {<<THREAD_COUNTS[i], data[p][i][1]>> : i \in drawn(p)}]]

\* --- generate_io_mode_charts.py ---
\* the allowlist, two of its rows
BENCHMARKS ==
    <<[label |-> "Sequential Read", prefix |-> "Sequential Read ("],
      [label |-> "Random Read", prefix |-> "Random Read ("]>>

\* name.startswith(prefix) on the record names of the bounded inputs
startswith(name, prefix) ==
    <<name, prefix>> \in {<<"Sequential Read (120 blocks)", "Sequential Read (">>,
                          <<"Sequential Read (240 blocks)", "Sequential Read (">>,
                          <<"Random Read (120 blocks)", "Random Read (">>}

\* the raw artifacts a results directory may hold
IoResultSets ==
    {<< >>,
     <<PlainRecord("Sequential Read (120 blocks)", 2000)>>,
     <<PlainRecord("Sequential Read (120 blocks)", 2000),
       PlainRecord("Random Read (120 blocks)", 1000)>>,
     <<PlainRecord("Sequential Read (120 blocks)", 2000),
       PlainRecord("Sequential Read (240 blocks)", 2000),
       PlainRecord("Random Read (120 blocks)", 1000)>>}

IoInputs == [Cells -> {NoFile} \cup {File(rs) : rs \in IoResultSets}]

\* load_result_map: name -> value, the last record of a name wins
load_result_map(payload) ==
    [n \in {payload[i].name : i \in 1..Len(payload)} |->
        payload[CHOOSE i \in 1..Len(payload) :
                    /\ payload[i].name = n
                    /\ \A j \in 1..Len(payload) : payload[j].name = n => j <= i].value]

\* find_bench_name: the names of the map that start with the prefix
prefix_matches(result_map, prefix) == {n \in DOMAIN result_map : startswith(n, prefix)}

\* resolve_values for the spec at index i: "" when the row resolves, else
\* the RuntimeError raised
resolve_error(buffered_values, direct_values, i) ==
    LET matches == prefix_matches(buffered_values, BENCHMARKS[i].prefix)
    IN IF matches = {} THEN "Missing benchmark prefix in buffered results"
       ELSE IF Cardinality(matches) > 1 THEN "Ambiguous benchmark prefix"
       ELSE IF (CHOOSE n \in matches : TRUE) \notin DOMAIN direct_values
            THEN "Benchmark missing in direct results"
       ELSE ""

\* resolve_values: the rows <<label, buffered value, direct value>>, or the
\* error of the first spec that does not resolve
resolve_values(buffered_values, direct_values) ==
    LET bad == {i \in 1..Len(BENCHMARKS) : resolve_error(buffered_values, direct_values, i) # ""}
        key(i) == CHOOSE n \in prefix_matches(buffered_values, BENCHMARKS[i].prefix) : TRUE
    IN IF bad # {}
       THEN [error |-> resolve_error(buffered_values, direct_values, Least(bad)), rows |-> {}]
       ELSE [error |-> "",
             rows |-> {<<BENCHMARKS[i].label, buffered_values[key(i)], direct_values[key(i)]>> :
                          i \in 1..Len(BENCHMARKS)}]

\* --- render_replacement_policy_docs.py ---
\* two of the README_ROWS: a latency row and a throughput row whose
\* ops_fn is num_buffers * 10
README_ROWS ==
    <<[label |-> "Pin/Unpin hit", bench_name |-> "Pin/Unpin (hit)", kind |-> "latency",
       unit |-> "", ops_fn |-> "", hit_key |-> "", precision |-> 3],
      [label |-> "Sequential Scan", bench_name |-> "Sequential Scan (120 blocks)",
       kind |-> "throughput", unit |-> "blocks", ops_fn |-> "num_buffers * 10",
       hit_key |-> "Sequential Scan", precision |-> 3]>>

\* row.ops_fn(num_buffers) if row.ops_fn else None
row_ops(row, num_buffers) ==
    IF row.ops_fn = "num_buffers * 10" THEN Some(num_buffers * 10) ELSE None

TableNames == {README_ROWS[i].bench_name : i \in 1..Len(README_ROWS)}
TableValues == {0, 1000, 2000}

\* load_platform_data: per policy None (no info, no file) or the means of
\* its JSON file and the hit rate recorded for "Sequential Scan"
TableInputs ==
    [Policies ->
        {None} \cup {Some([means |-> m, hit_rate |-> h]) :
                        m \in UNION {[K -> TableValues] : K \in SUBSET TableNames},
                        h \in {None, Some(95)}}]

\* the policies load_platform_data keeps
table_platform_data(input) ==
    [p \in {q \in Policies : input[q] # None} |-> input[p][1]]

\* build_table for one row: per policy the mean (latency), the throughput,
\* or None
row_values(platform_data, row, num_buffers) ==
    [i \in 1..Len(POLICY_ORDER) |->
        IF POLICY_ORDER[i] \notin DOMAIN platform_data THEN None
        ELSE LET mean_ns == dict_get(platform_data[POLICY_ORDER[i]].means, row.bench_name)
             IN IF row.kind = "latency"
                THEN (IF mean_ns = None THEN None ELSE Some(Frac(mean_ns[1], 1)))
                ELSE compute_throughput(mean_ns, row_ops(row, num_buffers))]

\* the values that are not None
candidates(values) == {values[i][1] : i \in {j \in 1..Len(values) : values[j] # None}}

frac_min(S) == CHOOSE x \in S : \A y \in S : frac_le(x, y)
frac_max(S) == CHOOSE x \in S : \A y \in S : frac_le(y, x)

\* abs(v - target) < 1e-12: on the values of the model (quotients of
\* integers below 10^9) two values that close are equal
frac_close(x, y) == x.num * y.den = y.num * x.den

\* highlight_best that takes the minimum whatever the kind of the row
highlight_best_min_only(values, kind) ==
    IF candidates(values) = {} THEN [i \in 1..Len(values) |-> FALSE]
    ELSE [i \in 1..Len(values) |->
             values[i] # None /\ frac_close(values[i][1], frac_min(candidates(values)))]

\* highlight_best
highlight_best(values, kind) ==
    IF candidates(values) = {} THEN [i \in 1..Len(values) |-> FALSE]
    ELSE LET target == IF kind = "latency" THEN frac_min(candidates(values))
                       ELSE frac_max(candidates(values))
         IN [i \in 1..Len(values) |-> values[i] # None /\ frac_close(values[i][1], target)]

\* format_latency: microseconds with three decimals below 100, with one
\* decimal from 100 on (the quantity is kept in thousandths, in tenths)
format_latency(ns_value) ==
    IF ns_value = None THEN Gap
    ELSE IF ns_value[1].num < 100 * 1000 THEN <<"us.3", ns_value[1].num>>
    ELSE <<"us.1", (ns_value[1].num + 50) \div 100>>

\* format_throughput: millions with row.precision decimals (3 in every
\* row): the quantity in thousandths of a million, rounded
format_throughput(value, unit, precision) ==
    IF value = None THEN Gap
    ELSE <<IF unit = "ops" THEN "M ops/s" ELSE "M blocks/s",
           (2 * value[1].num * 1000 + value[1].den) \div (2 * value[1].den)>>

\* attach_hit_rate: the rate appended to a cell that is not the placeholder
attach_hit_rate(cell, platform_data, policy, hit_key) ==
    IF cell = Gap \/ hit_key = "" THEN None
    ELSE IF policy \notin DOMAIN platform_data THEN None
    ELSE platform_data[policy].hit_rate

\* make_table_markdown, one row: the label and one cell per policy; a cell
\* is its text, the hit rate attached and whether it is set in bold
table_row(row, platform_data, num_buffers) ==
    LET values == row_values(platform_data, row, num_buffers)
        best_flags == highlight_best(values, row.kind)
        text(i) == IF row.kind = "latency" THEN format_latency(values[i])
                   ELSE format_throughput(values[i], row.unit, row.precision)
    IN [label |-> row.label,
        cells |-> [i \in 1..Len(POLICY_ORDER) |->
                     [text |-> text(i),
                      hits |-> IF row.kind = "latency" THEN None
                               ELSE attach_hit_rate(text(i), platform_data, POLICY_ORDER[i],
                                                    row.hit_key),
                      bold |-> best_flags[i] /\ text(i) # Gap]]]

\* metadata.get("num_buffers", 12) of a metadata file without the field
DEFAULT_NUM_BUFFERS == 12

\* no renderer is running
RenderIdle ==
    /\ rnd_kind = "none"
    /\ rnd_in = << >>
    /\ rnd_pc = "done"
    /\ rnd_i = 1
    /\ rnd_out = << >>
    /\ rnd_msgs = << >>

\* a renderer about to run on stored artifacts of the bounded sets
RenderInit ==
    /\ rnd_kind \in {"io_mode", "scaling", "table"}
    /\ rnd_in \in (IF rnd_kind = "io_mode" THEN IoInputs
                   ELSE IF rnd_kind = "scaling" THEN ScalingInputs
                   ELSE TableInputs)
    /\ rnd_pc = (IF rnd_kind = "scaling" THEN "load" ELSE "loop")
    /\ rnd_i = 1
    /\ rnd_out = << >>
    /\ rnd_msgs = << >>

\* generate_io_mode_charts.py, main: one iteration of "for regime in REGIMES"
IoRegime ==
    /\ rnd_kind = "io_mode"
    /\ rnd_pc = "loop"
    /\ rnd_i <= Len(REGIMES)
    /\ LET r == REGIMES[rnd_i]
           buffered_file == rnd_in[<<"buffered", r>>]
           direct_file == rnd_in[<<"direct", r>>]
           res == resolve_values(load_result_map(buffered_file.content[1]),
                                 load_result_map(direct_file.content[1]))
       IN IF ~buffered_file.exists \/ ~direct_file.exists
          THEN /\ rnd_pc' = "raised"
               /\ rnd_msgs' = Append(rnd_msgs, [type |-> "FileNotFoundError",
                                                text |-> "Missing regime files"])
               /\ UNCHANGED <<rnd_i, rnd_out>>
          ELSE IF res.error # ""
          THEN /\ rnd_pc' = "raised"
               /\ rnd_msgs' = Append(rnd_msgs, [type |-> "RuntimeError", text |-> res.error])
               /\ UNCHANGED <<rnd_i, rnd_out>>
          ELSE /\ rnd_out' = Append(rnd_out, [filename |-> <<"io_mode", r>>, bars |-> res.rows])
               /\ rnd_i' = rnd_i + 1
               /\ UNCHANGED <<rnd_pc, rnd_msgs>>
    /\ UNCHANGED <<pol_vars, rnd_kind, rnd_in, cmp_vars, ext_vars, sweep_vars>>

\* generate_io_mode_charts.py, main returns
IoDone ==
    /\ rnd_kind = "io_mode"
    /\ rnd_pc = "loop"
    /\ rnd_i > Len(REGIMES)
    /\ rnd_pc' = "done"
    /\ UNCHANGED <<pol_vars, rnd_kind, rnd_in, rnd_i, rnd_out, rnd_msgs, cmp_vars, ext_vars, sweep_vars>>

\* generate_scaling_charts.py, main up to the chart loop: a warning per
\* policy without info, the end when no policy has data
ScalingLoad ==
    /\ rnd_kind = "scaling"
    /\ rnd_pc = "load"
    /\ LET warned == SelectSeq(POLICY_ORDER, LAMBDA p : rnd_in[p] = None)
           warnings == [i \in 1..Len(warned) |-> [type |-> "Warning", text |-> "No info"]]
       IN IF DOMAIN scaling_platform_data(rnd_in) = {}
          THEN /\ rnd_msgs' = warnings \o <<[type |-> "Error", text |-> "No policy data found"]>>
               /\ rnd_pc' = "done"
          ELSE /\ rnd_msgs' = warnings
               /\ rnd_pc' = "charts"
    /\ UNCHANGED <<pol_vars, rnd_kind, rnd_in, rnd_i, rnd_out, cmp_vars, ext_vars, sweep_vars>>

\* create_scaling_chart for the chart spec, then main returns
ScalingChart ==
    /\ rnd_kind = "scaling"
    /\ rnd_pc = "charts"
    /\ LET chart == scaling_chart(PinSpec, scaling_platform_data(rnd_in))
       IN IF DOMAIN chart.plotted = {}
          THEN /\ rnd_msgs' = Append(rnd_msgs, [type |-> "Warning", text |-> "No data found"])
               /\ UNCHANGED rnd_out
          ELSE /\ rnd_out' = Append(rnd_out, chart)
               /\ UNCHANGED rnd_msgs
    /\ rnd_pc' = "done"
    /\ UNCHANGED <<pol_vars, rnd_kind, rnd_in, rnd_i, cmp_vars, ext_vars, sweep_vars>>

\* make_table_markdown: one iteration of the loop over the rows
TableRow ==
    /\ rnd_kind = "table"
    /\ rnd_pc = "loop"
    /\ rnd_i <= Len(README_ROWS)
    /\ rnd_out' = Append(rnd_out, table_row(README_ROWS[rnd_i], table_platform_data(rnd_in),
                                            DEFAULT_NUM_BUFFERS))
    /\ rnd_i' = rnd_i + 1
    /\ UNCHANGED <<pol_vars, rnd_kind, rnd_in, rnd_pc, rnd_msgs, cmp_vars, ext_vars, sweep_vars>>

\* make_table_markdown returns
TableDone ==
    /\ rnd_kind = "table"
    /\ rnd_pc = "loop"
    /\ rnd_i > Len(README_ROWS)
    /\ rnd_pc' = "done"
    /\ UNCHANGED <<pol_vars, rnd_kind, rnd_in, rnd_i, rnd_out, rnd_msgs, cmp_vars, ext_vars, sweep_vars>>

(***************************************************************************)
(* The buffer-pool policy runner: bench/run_buffer_pool.py                 *)
(***************************************************************************)
POLICIES ==
    [p \in Policies |->
        IF p = "replacement_lru" THEN "Replacement LRU"
        ELSE IF p = "replacement_clock" THEN "Replacement Clock" ELSE "Replacement SIEVE"]

PAGE_SIZES ==
    [s \in {"page-4k", "page-8k", "page-1m"} |->
        IF s = "page-4k" THEN "4KB pages"
        ELSE IF s = "page-8k" THEN "8KB pages" ELSE "1MB pages"]

PIN_HOTSET_POOL_SIZE == 4096

\* a line of the human-readable log that HIT_RATE_RE matches (the rate in
\* tenths of a percent), and a line it does not match
HitLine(name, rate, hits, misses) ==
    [kind |-> "hit_rate", name |-> name, rate |-> rate, hits |-> hits, misses |-> misses]
TextLine == [kind |-> "text", name |-> "", rate |-> 0, hits |-> 0, misses |-> 0]

\* what the child of the JSON run may end with
JsonOutcomes ==
    {[returncode |-> 0, stdout |-> <<LogLine, ArrayLine(<<PlainRecord("Pin/Unpin hit", 900)>>)>>],
     [returncode |-> 0, stdout |-> <<LogLine, BracketedText>>],
     [returncode |-> 0, stdout |-> <<LogLine>>],
     [returncode |-> 1, stdout |-> <<LogLine>>]}

\* what the child of the text run may end with
TextOutcomes ==
    {[returncode |-> 0, stdout |-> <<TextLine, HitLine("Random", 905, 181, 19)>>,
      stderr |-> <<TextLine>>],
     [returncode |-> 1, stdout |-> << >>, stderr |-> <<TextLine>>]}

\* the argument namespaces the runner is invoked with: any --policies list
\* (repeats and the empty list included), with or without --skip-text
PolicyArgSets ==
    [platform : {"linux"}, title : {None}, environment : {None}, iterations : {50},
     num_buffers : {12}, policies : SeqsUpTo(Policies, MaxPolicyArgs),
     page_size : {"page-4k", "page-8k"}, skip_text : BOOLEAN]

\* extract_json: the parse of the first bracketed line, or the error raised
extract_json(stdout) ==
    IF bracketed_at(stdout) = {} THEN [error |-> "RuntimeError", data |-> << >>]
    ELSE IF ~json_loads(strip(stdout[Least(bracketed_at(stdout))])).ok
         THEN [error |-> "JSONDecodeError", data |-> << >>]
    ELSE [error |-> "none", data |-> json_loads(strip(stdout[Least(bracketed_at(stdout))])).value]

\* write_text_log: stdout first, then stderr
write_text_log(stdout, err) == stdout \o err

\* capture_hit_rates: name -> rate, hits, misses of the last matching line
capture_hit_rates(log_text) ==
    [n \in {log_text[i].name : i \in {j \in 1..Len(log_text) : log_text[j].kind = "hit_rate"}} |->
        LET k == CHOOSE i \in 1..Len(log_text) :
                     /\ log_text[i].kind = "hit_rate" /\ log_text[i].name = n
                     /\ \A j \in (i + 1)..Len(log_text) :
                           ~(log_text[j].kind = "hit_rate" /\ log_text[j].name = n)
        IN [hit_rate |-> log_text[k].rate, hits |-> log_text[k].hits,
            misses |-> log_text[k].misses]]

\* the paths <policy>.json and <policy>.txt relative to the repository
json_rel(policy) == <<policy, "json">>
log_rel_of(policy) == <<policy, "txt">>

\* dict.update and dict.setdefault
dict_update(m, u) ==
    [k \in DOMAIN m \cup DOMAIN u |-> IF k \in DOMAIN u THEN u[k] ELSE m[k]]
dict_setdefault(m, k, v) == IF k \in DOMAIN m THEN m ELSE dict_put(m, k, v)

\* the title and environment defaults of main
default_title(platform) ==
    IF platform = "macos" THEN "macOS (M1 Pro, macOS Sequoia)"
    ELSE IF platform = "linux" THEN "Linux (i7-8650U, Ubuntu 6.8.0-86)"
    ELSE IF platform = "freebsd" THEN "Freebsd" ELSE platform
default_environment(platform) ==
    IF platform = "macos" THEN "macos (aarch64)"
    ELSE IF platform = "linux" THEN "linux (x86_64)" ELSE ""

\* the run-parameter fields main puts into the metadata; generated_at is
\* the number of the run
run_parameters(a, now) ==
    [k \in {"platform", "title", "environment", "iterations", "num_buffers",
            "pin_hotset_pool_size", "page_size", "generated_at"} |->
        CASE k = "platform" -> <<a.platform>>
          [] k = "title" -> IF a.title = None THEN <<default_title(a.platform)>> ELSE a.title
          [] k = "environment" ->
               IF a.environment = None THEN <<default_environment(a.platform)>> ELSE a.environment
          [] k = "iterations" -> <<a.iterations>>
          [] k = "num_buffers" -> <<a.num_buffers>>
          [] k = "pin_hotset_pool_size" -> <<PIN_HOTSET_POOL_SIZE>>
          [] k = "page_size" -> <<a.page_size>>
          [] OTHER -> <<now>>]

\* the entry main stores for a policy
policy_entry(policy, page_size, log_rel, hit_rates) ==
    [display |-> <<POLICIES[policy], PAGE_SIZES[page_size]>>,
     json_path |-> json_rel(policy),
     log_path |-> log_rel,
     hit_rates |-> hit_rates]

\* the platform directory an earlier, complete run of the runner over the
\* policies ps has left (4KB pages, 100 iterations, with text logs)
EarlierLog == <<TextLine, HitLine("Random", 870, 174, 26)>>
earlier_run(ps) ==
    [metadata |->
        File(dict_put(run_parameters([platform |-> "linux", title |-> None,
                                      environment |-> None, iterations |-> 100,
                                      num_buffers |-> 12, page_size |-> "page-4k"], 1),
                      "policies",
                      [p \in ps |-> policy_entry(p, "page-4k", Some(log_rel_of(p)),
                                                capture_hit_rates(EarlierLog))])),
     json |-> [p \in Policies |->
                 IF p \in ps THEN File(<<PlainRecord("Pin/Unpin hit", 1000)>>) ELSE NoFile],
     txt |-> [p \in Policies |-> IF p \in ps THEN File(EarlierLog) ELSE NoFile]]

\* the platform directories the runner starts on: empty, or left by an
\* earlier run over all policies or over one of them
PolicyDirs ==
    {[metadata |-> NoFile, json |-> [p \in Policies |-> NoFile],
      txt |-> [p \in Policies |-> NoFile]],
     earlier_run(Policies),
     earlier_run({"replacement_lru"})}

\* load_existing_metadata
load_existing_metadata(file) == IF file.exists THEN file.content[1] ELSE << >>

\* the loop variable policy_key
policy_key == pol_args.policies[pol_i]

NoLocal == [log_rel |-> None, hit_rates |-> << >>]

\* the runner is not running
PolicyIdle ==
    /\ pol_pc = "done"
    /\ pol_args = << >>
    /\ pol_metadata = << >>
    /\ pol_i = 1
    /\ pol_local = NoLocal
    /\ pol_disk = << >>
    /\ pol_old = NoFile

\* the runner about to start on a platform directory
PolicyInit ==
    /\ pol_pc = "load"
    /\ pol_args \in PolicyArgSets
    /\ pol_metadata = << >>
    /\ pol_i = 1
    /\ pol_local = NoLocal
    /\ pol_disk \in PolicyDirs
    /\ pol_old = pol_disk.metadata

\* a start of main that ignores the metadata.json of the directory
PolicyLoadFresh ==
    /\ pol_pc = "load"
    /\ pol_metadata' = dict_setdefault(dict_update(<< >>, run_parameters(pol_args, 2)),
                                       "policies", << >>)
    /\ pol_pc' = IF pol_args.policies = << >> THEN "write" ELSE "json_run"
    /\ UNCHANGED <<pol_args, pol_i, pol_local, pol_disk, pol_old,
                   sweep_vars, cmp_vars, ext_vars, rnd_vars>>

\* lines 157-193: the metadata of the directory is loaded, the run
\* parameters are put into it, "policies" is created when missing
PolicyLoad ==
    /\ pol_pc = "load"
    /\ pol_metadata' = dict_setdefault(dict_update(load_existing_metadata(pol_disk.metadata),
                                                   run_parameters(pol_args, 2)),
                                       "policies", << >>)
    /\ pol_pc' = IF pol_args.policies = << >> THEN "write" ELSE "json_run"
    /\ UNCHANGED <<pol_args, pol_i, pol_local, pol_disk, pol_old,
                   sweep_vars, cmp_vars, ext_vars, rnd_vars>>

\* lines 195-217: the JSON run of the policy; run_command raises on a
\* non-zero exit, extract_json on a missing or malformed payload; otherwise
\* <policy>.json is written
PolicyJsonRun ==
    /\ pol_pc = "json_run"
    /\ \E out \in JsonOutcomes :
          IF out.returncode # 0 \/ extract_json(out.stdout).error # "none"
          THEN /\ pol_pc' = "raised"
               /\ UNCHANGED <<pol_disk, pol_local>>
          ELSE /\ pol_disk' = [pol_disk EXCEPT !.json[policy_key] =
                                   File(extract_json(out.stdout).data)]
               /\ pol_local' = NoLocal
               /\ pol_pc' = IF pol_args.skip_text THEN "record" ELSE "text_run"
    /\ UNCHANGED <<pol_args, pol_metadata, pol_i, pol_old,
                   sweep_vars, cmp_vars, ext_vars, rnd_vars>>

\* lines 219-227: the text run of the policy; the log is written and the
\* hit rates are read from it
PolicyTextRun ==
    /\ pol_pc = "text_run"
    /\ \E out \in TextOutcomes :
          IF out.returncode # 0
          THEN /\ pol_pc' = "raised"
               /\ UNCHANGED <<pol_disk, pol_local>>
          ELSE /\ pol_disk' = [pol_disk EXCEPT !.txt[policy_key] =
                                   File(write_text_log(out.stdout, out.stderr))]
               /\ pol_local' = [log_rel |-> Some(log_rel_of(policy_key)),
                                hit_rates |-> capture_hit_rates(
                                                 write_text_log(out.stdout, out.stderr))]
               /\ pol_pc' = "record"
    /\ UNCHANGED <<pol_args, pol_metadata, pol_i, pol_old,
                   sweep_vars, cmp_vars, ext_vars, rnd_vars>>

\* lines 229-235 and the loop header (195): the entry of the policy is stored in
\* the metadata, the loop advances
PolicyRecord ==
    /\ pol_pc = "record"
    /\ pol_metadata' =
          [pol_metadata EXCEPT !["policies"] =
              dict_put(pol_metadata["policies"], policy_key,
                       policy_entry(policy_key, pol_args.page_size,
                                    pol_local.log_rel, pol_local.hit_rates))]
    /\ IF pol_i < Len(pol_args.policies)
       THEN pol_i' = pol_i + 1 /\ pol_pc' = "json_run"
       ELSE pol_i' = pol_i /\ pol_pc' = "write"
    /\ UNCHANGED <<pol_args, pol_local, pol_disk, pol_old,
                   sweep_vars, cmp_vars, ext_vars, rnd_vars>>

\* lines 237-238: metadata.json is written
PolicyWriteMetadata ==
    /\ pol_pc = "write"
    /\ pol_disk' = [pol_disk EXCEPT !.metadata = File(pol_metadata)]
    /\ pol_pc' = "done"
    /\ UNCHANGED <<pol_args, pol_metadata, pol_i, pol_local, pol_old,
                   sweep_vars, cmp_vars, ext_vars, rnd_vars>>

PolicyNext ==
    \/ PolicyLoad
    \/ PolicyJsonRun
    \/ PolicyTextRun
    \/ PolicyRecord
    \/ PolicyWriteMetadata

(***************************************************************************)
(* The specifications.                                                     *)
(***************************************************************************)
Init == SweepInit /\ CompareIdle /\ ExtractIdle /\ RenderIdle /\ PolicyIdle

\* the orchestrator, invoked on an empty output directory
Spec == Init /\ [][Next]_vars

\* the orchestrator invoked on an empty output directory, every child
\* process ending and every statement of main being executed in its turn
SpecTerminating == Init /\ [][Next]_vars /\ WF_vars(Next)

\* the orchestrator about to be invoked on one of the machines of
\* ProbeHosts, with a subject and a comparator that succeed
InitDetect ==
    /\ pc = "idle"
    /\ sweep = 0
    /\ host \in ProbeHosts
    /\ subject = {[returncode |-> 0, stdout |-> <<LogLine, ArrayLine(<<PlainRecord("a", 1000)>>)>>]}
    /\ comparator = {TRUE}
    /\ args = NoArgs
    /\ regime_i = 1
    /\ buffered = << >>
    /\ direct = << >>
    /\ cmds = NoCmds
    /\ metadata = build_run_metadata(NoArgs, host, 0)
    /\ all_buffered = << >>
    /\ all_direct = << >>
    /\ stderr = << >>
    /\ exit_status = -1
    /\ raw = [c \in Cells |-> NoFile]
    /\ reports = [r \in {"hot", "pressure", "thrash"} |-> NoFile]
    /\ manifest = NoFile
    /\ log = << >>
    /\ children = {}
    /\ prev = << >>
    /\ CompareIdle
    /\ ExtractIdle
    /\ RenderIdle
    /\ PolicyIdle

SpecDetect == InitDetect /\ [][Next]_vars

\* the orchestrator is not running
SweepIdle ==
    /\ pc = "idle"
    /\ sweep = 0
    /\ host = CHOOSE h \in Hosts : ~h.df_ok
    /\ subject = {}
    /\ args = NoArgs
    /\ regime_i = 1
    /\ buffered = << >>
    /\ direct = << >>
    /\ cmds = NoCmds
    /\ metadata = << >>
    /\ all_buffered = << >>
    /\ all_direct = << >>
    /\ stderr = << >>
    /\ exit_status = -1
    /\ raw = << >>
    /\ reports = << >>
    /\ manifest = NoFile
    /\ log = << >>
    /\ children = {}
    /\ comparator = {}
    /\ prev = << >>

CompareNext ==
    \/ CompareLoad
    \/ CompareRow
    \/ CompareReturn

\* the comparator about to run on a pair of ResultSets of the bounded sets
InitCompare == CompareInit /\ SweepIdle /\ ExtractIdle /\ RenderIdle /\ PolicyIdle

SpecCompare == InitCompare /\ [][CompareNext]_vars

RerunNext ==
    \/ Next
    \/ BeginAgain

\* before the first of a sequence of invocations into one output directory
InitRerun ==
    /\ pc = "idle"
    /\ sweep = 0
    /\ host \in Hosts
    /\ \E env \in RerunEnvs :
          /\ subject = env.subject
          /\ comparator = env.comparator
    /\ args = NoArgs
    /\ regime_i = 1
    /\ buffered = << >>
    /\ direct = << >>
    /\ cmds = NoCmds
    /\ metadata = build_run_metadata(NoArgs, host, 0)
    /\ all_buffered = << >>
    /\ all_direct = << >>
    /\ stderr = << >>
    /\ exit_status = -1
    /\ raw = [c \in Cells |-> NoFile]
    /\ reports = [r \in {"hot", "pressure", "thrash"} |-> NoFile]
    /\ manifest = NoFile
    /\ log = << >>
    /\ children = {}
    /\ prev = << >>
    /\ CompareIdle
    /\ ExtractIdle
    /\ RenderIdle
    /\ PolicyIdle

SpecRerun == InitRerun /\ [][RerunNext]_vars

RenderNext ==
    \/ IoRegime
    \/ IoDone
    \/ ScalingLoad
    \/ ScalingChart
    \/ TableRow
    \/ TableDone

\* a renderer about to run on stored artifacts of the bounded sets
InitRender == RenderInit /\ SweepIdle /\ CompareIdle /\ ExtractIdle /\ PolicyIdle

SpecRender == InitRender /\ [][RenderNext]_vars

\* the policy runner about to start on a platform directory
InitPolicies == PolicyInit /\ SweepIdle /\ CompareIdle /\ ExtractIdle /\ RenderIdle

SpecPolicies == InitPolicies /\ [][PolicyNext]_vars

ExtractNext ==
    \/ ExtractRun
    \/ ExtractLine
    \/ ExtractExhausted

\* an invoker about to run a child whose result is one of the bounded set
InitExtract == ExtractInit /\ SweepIdle /\ CompareIdle /\ RenderIdle /\ PolicyIdle

SpecExtract == InitExtract /\ [][ExtractNext]_vars

(***************************************************************************)
(* Properties of the comparator (checked under SpecCompare).               *)
(***************************************************************************)
\* the names of a ResultSet
names_of(data) == {data[i].name : i \in 1..Len(data)}

\* no two records of the ResultSet share a name
unique_names(data) ==
    \A i, j \in 1..Len(data) : i # j => data[i].name # data[j].name

\* the table rows emitted so far (lines without the header)
rows == SubSeq(lines, 2, Len(lines))

\* the base record of row i has a record of the same name in the candidate
matched(i) == base_data[i].name \in names_of(pr_data)

\* the candidate value row i is compared against (the last record of the name)
pr_value(i) == pr_lookup(pr_data)[base_data[i].name].value

\* C1: for every pair of ResultSets with unique names in base, the returned
\* table has exactly one row per base record, in base order, and no row for
\* a name that occurs only in candidate.
C1_OneRowPerBaseRecord ==
    (cmp_pc = "returned" /\ unique_names(base_data)) =>
        /\ Len(rows) = Len(base_data)
        /\ \A i \in 1..Len(rows) : rows[i].name = base_data[i].name
        /\ \A n \in names_of(base_data) :
              Cardinality({i \in 1..Len(rows) : rows[i].name = n}) = 1
        /\ \A n \in names_of(pr_data) \ names_of(base_data) :
              \A i \in 1..Len(rows) : rows[i].name # n

\* C1 witness: a comparison has returned one row for a base of one record,
\* while candidate holds that name and a name that base does not hold
C1_Witness ==
    /\ cmp_pc = "returned"
    /\ unique_names(base_data)
    /\ Len(rows) = 1
    /\ matched(1)
    /\ names_of(pr_data) \ names_of(base_data) # {}

\* C2: a record with base value 1000 and candidate value 1050 (a change of
\* exactly +5 percent) is classified neutral.
C2_ExactlyFivePercentIsNeutral ==
    \A i \in 1..Len(rows) :
        (matched(i) /\ base_data[i].value = 1000 /\ pr_value(i) = 1050)
            => rows[i].status = "ok"

\* C3: for every record present in both sets (base value not 0) the status
\* follows from percent_change = (candidate - base) / base * 100: neutral
\* when |percent_change| < 5, slower when percent_change > 5, faster when
\* percent_change < -5; 1000 -> 1051 is slower and 1000 -> 949 is faster.
C3_StatusFollowsPercentChange ==
    \A i \in 1..Len(rows) :
        (matched(i) /\ base_data[i].value # 0) =>
            LET b == base_data[i].value
                c == pr_value(i)
            IN /\ rows[i].status \in {"ok", "slower", "faster"}
               /\ (Abs(c - b) * 100 < 5 * b) => rows[i].status = "ok"
               /\ ((c - b) * 100 > 5 * b) => rows[i].status = "slower"
               /\ ((c - b) * 100 < (-5) * b) => rows[i].status = "faster"
               /\ (b = 1000 /\ c = 1051) => rows[i].status = "slower"
               /\ (b = 1000 /\ c = 949) => rows[i].status = "faster"

\* C3 witness: one table holds a row 1000 -> 1051 marked slower and a row
\* 1000 -> 949 marked faster
C3_Witness ==
    /\ \E i \in 1..Len(rows) :
          matched(i) /\ base_data[i].value = 1000 /\ pr_value(i) = 1051
          /\ rows[i].status = "slower"
    /\ \E i \in 1..Len(rows) :
          matched(i) /\ base_data[i].value = 1000 /\ pr_value(i) = 949
          /\ rows[i].status = "faster"

\* C4: every base record whose name is absent from candidate gets a row
\* with status missing and change "N/A", no percent change is computed for
\* it, and the loop goes on to the remaining base records.
C4_MissingRow ==
    /\ \A i \in 1..Len(rows) :
          ~matched(i) => /\ rows[i].status = "missing"
                         /\ rows[i].change = <<"N/A">>
                         /\ rows[i].pr = <<"--">>
    /\ Len(changes) = Cardinality({i \in 1..Len(rows) : matched(i)})
    /\ cmp_pc = "loop" => Len(rows) = pos - 1
    /\ cmp_pc = "returned" => Len(rows) = Len(base_data)

\* C4 witness: a comparison has returned in which a missing record came
\* first and a matched record was processed after it
C4_Witness ==
    /\ cmp_pc = "returned"
    /\ Len(rows) = 2
    /\ ~matched(1)
    /\ rows[1].status = "missing"
    /\ matched(2)
    /\ Len(changes) = 1

\* C5: a base record with value 0 causes no division fault: calculate_change
\* is 0 for every candidate value and the record is classified neutral.
C5_ZeroBaseIsNeutral ==
    /\ \A v \in PrValues \cup BaseValues : calculate_change(0, v) = Frac(0, 1)
    /\ \A i \in 1..Len(rows) :
          (matched(i) /\ base_data[i].value = 0) =>
              /\ rows[i].status = "ok"
              /\ rows[i].change = <<"+", 0, "%">>

\* C5 witness: a row was emitted for a base value of 0 against a non-zero
\* candidate value
C5_Witness ==
    \E i \in 1..Len(rows) :
        matched(i) /\ base_data[i].value = 0 /\ pr_value(i) = 1051
        /\ rows[i].status = "ok"

(***************************************************************************)
(* Properties of the orchestrator (checked under Spec).                    *)
(***************************************************************************)
\* the six cells in the order main runs them
CellOrder ==
    [k \in 1..(Len(REGIMES) * Len(Modes)) |->
        <<Modes[((k - 1) % Len(Modes)) + 1], REGIMES[((k - 1) \div Len(Modes)) + 1]>>]

\* the position of a cell in CellOrder
cell_index(c) == CHOOSE k \in DOMAIN CellOrder : CellOrder[k] = c

\* the events of one kind, in the order they happened
events(kind) == SelectSeq(log, LAMBDA e : e.event = kind)

\* the subject invocations started in this sweep
invocations == events("invoke")

\* the comparator runs of this sweep, successful or not
comparisons == SelectSeq(log, LAMBDA e : e.event \in {"compare", "compare_failed"})

\* the cells whose raw artifact was written in this sweep
written_cells == UNION {e.cells : e \in {log[i] : i \in {j \in 1..Len(log) : log[j].event = "artifact"}}}

\* the ResultSet written to the raw artifact of a cell in this sweep
written_data(c) ==
    log[CHOOSE i \in 1..Len(log) : log[i].event = "artifact" /\ log[i].cells = {c}].data

\* run_bench_cell has raised in this sweep
subject_failed ==
    \E i \in 1..Len(stderr) : stderr[i].kind = "error"

\* the cells whose commands the manifest on disk lists
manifest_cells == IF manifest.exists THEN listed_cells(manifest.content[1]) ELSE {}

\* the two cells of a regime
cells_of(r) == {<<"buffered", r>>, <<"direct", r>>}

\* C6: a sweep in which all six cells succeed always reaches the end and
\* emits the aggregate summary, also when a buffered record has value 0.
C6_SuccessfulSweepEmitsSummary ==
    (written_cells = Cells /\ exit_status # -1) =>
        /\ pc = "done"
        /\ exit_status = 0
        /\ Len(SelectSeq(stderr, LAMBDA l : l.kind = "summary")) = Len(REGIMES)

\* C7: when the subject invocation of a cell fails, the sweep aborts at that
\* cell: cells are invoked in grid order without retry or skip, nothing is
\* started after the failing invocation, and the raw artifacts of the
\* earlier cells stay on disk as written.
C7_SubjectFailureAbortsSweep ==
    /\ \A k \in 1..Len(invocations) : invocations[k].cells = {CellOrder[k]}
    /\ subject_failed =>
          /\ pc = "failed"
          /\ exit_status = 1
          /\ log[Len(log)].event = "invoke"
          /\ Len(comparisons) = (Len(invocations) - 1) \div Len(Modes)
          /\ \A j \in DOMAIN CellOrder :
                raw[CellOrder[j]] = IF j < Len(invocations)
                                    THEN File(written_data(CellOrder[j]))
                                    ELSE NoFile

\* C7 witness: the sweep was aborted by the failure of the fourth cell, with
\* three raw artifacts on disk
C7_Witness ==
    /\ pc = "failed"
    /\ subject_failed
    /\ Len(invocations) = 4
    /\ written_cells = {CellOrder[1], CellOrder[2], CellOrder[3]}
    /\ raw[CellOrder[3]].exists
    /\ ~raw[CellOrder[4]].exists

recorded_regimes ==
    {r \in {REGIMES[i] : i \in 1..Len(REGIMES)} :
        /\ \E i \in 1..Len(log) :
              log[i].event \in {"compare", "compare_failed"} /\ log[i].cells = cells_of(r)
        /\ ~(pc = "manifest_update" /\ r = regime)}

trimmed_is_bracketed(line) == line.kind \in {"bracketed_text", "array"}

\* k is the first line of the captured stdout that is bracketed after trimming
first_bracketed(k) ==
    /\ k \in 1..Len(ext_out.stdout)
    /\ trimmed_is_bracketed(ext_out.stdout[k])
    /\ \A j \in 1..(k - 1) : ~trimmed_is_bracketed(ext_out.stdout[j])

ext_ended == ext_pc \in {"returned", "raised"}

\* C11: when the child exited with status 0 and its stdout has a line that
\* is bracketed after trimming, the invoker ends on the first such line: it
\* has tested exactly the lines up to it, none after it, and what it returns
\* is the parse of that line (it raises if the line does not parse); three
\* log lines followed by one payload line return exactly that payload.
C11_FirstBracketedLineIsReturned ==
    /\ (ext_ended /\ ext_out.returncode = 0) =>
          \A k \in 1..Len(ext_out.stdout) :
              first_bracketed(k) =>
                 /\ ext_looked = 1..k
                 /\ IF ext_out.stdout[k].kind = "array"
                    THEN ext_pc = "returned" /\ ext_result.data = ext_out.stdout[k].json
                    ELSE ext_pc = "raised"
    /\ ext_pc = "returned" => \E k \in 1..Len(ext_out.stdout) : first_bracketed(k)
    /\ \A rs \in ExtPayloads :
          (ext_ended /\ ext_out = [returncode |-> 0,
                                   stdout |-> <<LogLine, LogLine, LogLine, ArrayLine(rs)>>])
             => ext_result = Returned(rs)

\* C11 witness: three log lines and a payload line, the payload returned
C11_Witness ==
    /\ ext_pc = "returned"
    /\ ext_out.stdout = <<LogLine, LogLine, LogLine, ArrayLine(<<PlainRecord("x", 42)>>)>>
    /\ ext_result.data = <<PlainRecord("x", 42)>>
    /\ ext_looked = 1..4

\* C12: an invoker returns a ResultSet only when the child exited with
\* status 0 and the first bracketed line of its stdout parsed; on a non-zero
\* exit, on a stdout without bracketed line and on a first bracketed line
\* that is not JSON it raises an error and hands no ResultSet to its caller;
\* it writes no file.
C12_ResultSetOnlyOnSuccess ==
    /\ ext_files = {}
    /\ ext_result.returned <=> ext_pc = "returned"
    /\ ext_pc = "returned" =>
          /\ ext_out.returncode = 0
          /\ \E k \in 1..Len(ext_out.stdout) :
                first_bracketed(k) /\ ext_out.stdout[k].kind = "array"
    /\ ext_ended =>
          /\ ext_out.returncode # 0 => ext_pc = "raised"
          /\ (\A k \in 1..Len(ext_out.stdout) : ~trimmed_is_bracketed(ext_out.stdout[k]))
                => ext_pc = "raised"
          /\ (\E k \in 1..Len(ext_out.stdout) :
                 first_bracketed(k) /\ ext_out.stdout[k].kind # "array") => ext_pc = "raised"
    /\ ext_pc = "raised" =>
          /\ ext_result.data = << >>
          /\ ext_result.error.type # ""
    /\ (ext_ended /\ ext_invoker = "run_bench_cell") =>
          /\ ext_result.returned <=> bench_outcome(ext_out).error = "none"
          /\ ext_result.data = bench_outcome(ext_out).data
          /\ ~ext_result.returned => ext_result.error.text = bench_outcome(ext_out).error

\* C12 witness: the first bracketed line is not JSON, a payload follows, the
\* invoker has raised
C12_Witness ==
    /\ ext_pc = "raised"
    /\ ext_out = [returncode |-> 0,
                  stdout |-> <<LogLine, BracketedText, ArrayLine(<<PlainRecord("x", 42)>>)>>]
    /\ ext_result.error.type \in {"RuntimeError", "JSONDecodeError"}
    /\ ext_files = {}

(***************************************************************************)
(* The sweep: one child at a time.                                         *)
(***************************************************************************)
\* position in the history of the k-th subject invocation
invoke_at(k) ==
    CHOOSE i \in 1..Len(log) :
        /\ log[i].event = "invoke"
        /\ Cardinality({j \in 1..i : log[j].event = "invoke"}) = k

\* C15: at most one child process runs at any time; the cells are invoked
\* in the order hot/buffered, hot/direct, pressure/buffered, pressure/direct,
\* thrash/buffered, thrash/direct whatever the earlier cells returned; a
\* child is started only after the child of the cell before it has ended
\* and its raw artifact has been written.
C15_OneCellAtATime ==
    /\ Cardinality(children) <= 1
    /\ \A k \in 1..Len(invocations) : invocations[k].cells = {CellOrder[k]}
    /\ \A c \in children :
          /\ log[Len(log)].event = "invoke"
          /\ log[Len(log)].cells = {c}
          /\ pc \in {"buffered_run", "direct_run"}
    /\ \A k \in 2..Len(invocations) :
          \E i \in 1..invoke_at(k) :
              /\ log[i].event = "artifact"
              /\ log[i].cells = {CellOrder[k - 1]}
              /\ invoke_at(k - 1) < i

\* C15 witness: the child of the fourth cell is running, the first three
\* cells have ended and their artifacts are written
C15_Witness ==
    /\ children = {CellOrder[4]}
    /\ Len(invocations) = 4
    /\ written_cells = {CellOrder[1], CellOrder[2], CellOrder[3]}

(***************************************************************************)
(* The comparator: rich-statistics mode.                                   *)
(***************************************************************************)
\* some record of the ResultSet carries one of p50, p95, std_dev
carries_stats(data) ==
    \E i \in 1..Len(data) : \E f \in {"p50", "p95", "std_dev"} : f \in DOMAIN data[i]

\* number of columns of the header, of the i-th row
header_columns == Len(lines[1].header)
row_columns(i) == 5 + Len(rows[i].stats)

\* the candidate record row i was compared against
pr_record(i) == pr_lookup(pr_data)[base_data[i].name]

\* C16: once the header is written: it has the six statistics columns
\* exactly when some record of base or candidate carries p50, p95 or
\* std_dev, and every row emitted, matched or missing, has as many columns
\* as the header.
C16_RichModeAppliesToEveryRow ==
    cmp_pc \in {"loop", "returned"} /\ Len(lines) >= 1 =>
       /\ header_columns = IF carries_stats(base_data) \/ carries_stats(pr_data) THEN 11 ELSE 5
       /\ \A i \in 1..Len(rows) : row_columns(i) = header_columns

\* C16 witness: a finished comparison in rich mode, triggered by a std_dev
\* alone, with a matched and a missing row
C16_Witness ==
    /\ cmp_pc = "returned"
    /\ base_data = <<SdOnlyRecord("b", 1000, 10), PlainRecord("a", 1000)>>
    /\ pr_data = <<PlainRecord("b", 1000)>>
    /\ header_columns = 11
    /\ Len(rows) = 2
    /\ row_columns(1) = 11 /\ row_columns(2) = 11

\* the statistics cell of row i for a side and a field
stat_cell(i, side, f) ==
    rows[i].stats[(CASE f = "p50" -> 1 [] f = "p95" -> 3 [] OTHER -> 5)
                  + (IF side = "base" THEN 0 ELSE 1)]

\* the record of a side of the matched row i
side_record(i, side) == IF side = "base" THEN base_data[i] ELSE pr_record(i)

manifest_commands ==
    IF manifest.exists
    THEN {<<r, k>> \in {"hot", "pressure", "thrash"} \X {"buffered", "direct", "compare"} :
             /\ r \in DOMAIN manifest.content[1].commands
             /\ manifest.content[1].commands[r][k] # << >>}
    ELSE {}

\* the invocation ended with status 0 and none of its comparator runs failed
fully_successful ==
    /\ pc = "done"
    /\ exit_status = 0
    /\ \A i \in 1..Len(log) : log[i].event # "compare_failed"

\* the raw artifacts and the reports as one successful sweep leaves them:
\* every file holds one document, written by this sweep
files_of_this_sweep ==
    /\ \A c \in Cells : raw[c] = File(written_data(c))
    /\ \A r \in {"hot", "pressure", "thrash"} :
          /\ reports[r].exists
          /\ Len(reports[r].content) = 1
          /\ reports[r].content[1].headers = <<render_compare_metadata_md(manifest.content[1], r)>>
          /\ reports[r].content[1].table =
                compare_benchmarks(written_data(<<"buffered", r>>), written_data(<<"direct", r>>))
    /\ manifest.exists
    /\ Len(manifest.content) = 1
    /\ manifest.content[1].generated_at_utc = sweep

\* C13 (as stated): after a fully successful sweep, the first or a repeated
\* one, the directory holds 6 raw artifacts and 3 reports, each one document
\* of this sweep, and the manifest lists exactly 6 commands.
C13_ManifestListsSixCommands ==
    fully_successful =>
       /\ files_of_this_sweep
       /\ Cardinality(manifest_commands) = 6

\* C13 (amended): after a sweep that ended with status 0 and whose three
\* comparator runs succeeded, the first or a repeated one, the directory
\* holds 6 raw artifacts and 3 reports, each one document of this sweep,
\* and the manifest lists 9 commands: for every regime the commands of its
\* two cells, as run, and the comparator command.
C13_ManifestListsNineCommands ==
    fully_successful =>
       /\ files_of_this_sweep
       /\ Cardinality(manifest_commands) = 9
       /\ manifest_cells = Cells
       /\ \A k \in DOMAIN CellOrder :
             manifest.content[1].commands[CellOrder[k][2]][CellOrder[k][1]]
                = invocations[k].command
       /\ \A r \in {"hot", "pressure", "thrash"} :
             manifest.content[1].commands[r].compare = compare_cmd_of(r)

\* C13 witness: the third of three fully successful sweeps into the same
\* directory, the subject's ResultSet differing from the sweep before
C13_Witness ==
    /\ sweep = 3
    /\ fully_successful
    /\ prev[1].pc = "done"
    /\ \A i \in 1..Len(prev[1].log) : prev[1].log[i].event # "compare_failed"
    /\ \A c \in Cells : prev[1].raw[c].exists /\ prev[1].raw[c] # raw[c]

\* the cells whose commands the manifest listed when this invocation began
inherited_cells ==
    IF prev # << >> /\ prev[1].manifest.exists
    THEN listed_cells(prev[1].manifest.content[1])
    ELSE {}

\* C14 (as stated): in a sweep into a directory that holds the manifest of
\* an earlier sweep, the commands that manifest listed stay on disk (until
\* the new sweep rewrites the entry of their regime).
C14_ExistingEntriesKept ==
    \A c \in inherited_cells : c \in manifest_cells

\* C14 (amended): the manifest of the earlier sweep stays on disk only
\* until the first write of the new sweep (line 328), which precedes every
\* cell; from then on the manifest holds the metadata built by the new
\* sweep and the commands of exactly the regimes the new sweep has
\* recorded, none of the earlier sweep.
C14_ManifestRebuiltFromScratch ==
    (prev # << >> /\ pc # "idle") =>
       IF pc = "write_manifest"
       THEN manifest = prev[1].manifest
       ELSE /\ manifest.exists
            /\ manifest.content[1].generated_at_utc = sweep
            /\ DOMAIN manifest.content[1].commands = recorded_regimes
            /\ manifest.content[1] =
                  [build_run_metadata(args, host, sweep)
                      EXCEPT !.commands = manifest.content[1].commands]

\* C14 witness: a second sweep, past its first manifest write and before
\* its first cell, in a directory whose manifest listed all six cells
C14_Witness ==
    /\ sweep = 2
    /\ pc = "buffered_run"
    /\ regime_i = 1
    /\ inherited_cells = Cells
    /\ manifest_cells = {}
    /\ \A c \in Cells : raw[c].exists

(***************************************************************************)
(* Provenance and orchestration.                                           *)
(***************************************************************************)
\* the metadata with its descriptive fields blanked
without_provenance(meta) ==
    [meta EXCEPT !.generated_at_utc = 0, !.filesystem_device = << >>, !.cgroup = << >>]

\* the two histories agree before position i
same_before(i) == \A j \in 1..(i - 1) : log[j] = prev[1].log[j]

\* the two entries differ only in what the subject or the comparator
\* returned: the ResultSet written, the comparator's success
differ_in_outcome_only(e, f) ==
    /\ e.cells = f.cells
    /\ e.command = f.command
    /\ \/ e.event = "artifact" /\ f.event = "artifact"
       \/ e.event \in {"compare", "compare_failed"} /\ f.event \in {"compare", "compare_failed"}

\* C18: an invocation and the invocation before it, run with the same
\* arguments in machine contexts that may differ, take the same steps on
\* the same cells with the same command lines as long as the subject and
\* the comparator return the same; when they return the same throughout,
\* both write the same raw artifacts and manifests that differ in the
\* descriptive fields only.
C18_ProvenanceDoesNotSteer ==
    (prev # << >> /\ pc # "idle" /\ prev[1].args = args) =>
       /\ \A i \in 1..Len(log) :
             (i <= Len(prev[1].log) /\ same_before(i)) =>
                \/ log[i] = prev[1].log[i]
                \/ differ_in_outcome_only(log[i], prev[1].log[i])
       /\ (log = prev[1].log /\ pc = prev[1].pc) =>
             /\ \A c \in written_cells : raw[c] = prev[1].raw[c]
             /\ without_provenance(manifest.content[1])
                   = without_provenance(prev[1].manifest.content[1])

\* C18 witness: two finished sweeps in different machine contexts, the
\* subject and the comparator behaving the same in both
C18_Witness ==
    /\ prev # << >>
    /\ pc = "done"
    /\ prev[1].pc = "done"
    /\ detect_cgroup_context(host) # detect_cgroup_context(prev[1].host)
    /\ detect_filesystem(host) # detect_filesystem(prev[1].host)
    /\ log = prev[1].log
    /\ raw = prev[1].raw
    /\ manifest # prev[1].manifest

(***************************************************************************)
(* The chart renderers and absent combinations.                            *)
(***************************************************************************)
\* the stored ResultSet of the policy has a record for the thread count,
\* with a mean other than 0
point_present(p, t) ==
    /\ rnd_in[p] # None
    /\ <<"Concurrent", t, 10000 \div t>> \in DOMAIN rnd_in[p][1]
    /\ rnd_in[p][1][<<"Concurrent", t, 10000 \div t>>] # 0

ThreadCounts == {THREAD_COUNTS[i] : i \in 1..Len(THREAD_COUNTS)}

\* the scaling chart renderer has ended without an exception; it has drawn
\* one line per policy with a point, through exactly the points present,
\* or no chart when no point is present
scaling_draws_what_is_present ==
    rnd_kind = "scaling" =>
       /\ rnd_pc # "raised"
       /\ rnd_pc = "done" =>
             IF \E p \in Policies, t \in ThreadCounts : point_present(p, t)
             THEN /\ Len(rnd_out) = 1
                  /\ DOMAIN rnd_out[1].plotted =
                        {p \in Policies : \E t \in ThreadCounts : point_present(p, t)}
                  /\ \A p \in DOMAIN rnd_out[1].plotted :
                        {pt[1] : pt \in rnd_out[1].plotted[p]} =
                           {t \in ThreadCounts : point_present(p, t)}
             ELSE /\ rnd_out = << >>
                  /\ rnd_msgs # << >>
                  /\ rnd_msgs[Len(rnd_msgs)].type \in {"Warning", "Error"}

\* the names of the records of a stored raw artifact
stored_names(file) == {file.content[1][i].name : i \in 1..Len(file.content[1])}

\* both raw artifacts of the regime exist, and every benchmark of the
\* allowlist has exactly one record in the buffered artifact and a record
\* of the same name in the direct artifact
regime_complete(r) ==
    /\ rnd_in[<<"buffered", r>>].exists
    /\ rnd_in[<<"direct", r>>].exists
    /\ \A i \in 1..Len(BENCHMARKS) :
          \E n \in stored_names(rnd_in[<<"buffered", r>>]) :
              /\ startswith(n, BENCHMARKS[i].prefix)
              /\ \A m \in stored_names(rnd_in[<<"buffered", r>>]) :
                    startswith(m, BENCHMARKS[i].prefix) => m = n
              /\ n \in stored_names(rnd_in[<<"direct", r>>])

stored_mean(j, i) == rnd_in[POLICY_ORDER[i]][1].means[README_ROWS[j].bench_name]

\* column i of row j has a value: the policy has a ResultSet with a record
\* of the row's name (for a throughput row, with a mean other than 0)
has_value(j, i) ==
    /\ rnd_in[POLICY_ORDER[i]] # None
    /\ README_ROWS[j].bench_name \in DOMAIN rnd_in[POLICY_ORDER[i]][1].means
    /\ README_ROWS[j].kind = "throughput" => stored_mean(j, i) # 0

\* the value of column i of row j is at least as good as that of column k:
\* not larger in a latency row; in a throughput row ops / mean not smaller
at_least_as_good(j, i, k) ==
    IF README_ROWS[j].kind = "latency"
    THEN stored_mean(j, i) <= stored_mean(j, k)
    ELSE 120 * stored_mean(j, k) >= 120 * stored_mean(j, i)

\* C20: in every row emitted, a cell is set in bold exactly when its
\* column has a value and no column with a value has a better one (smaller
\* in a latency row, larger in a throughput row); a column without value
\* shows the placeholder, not in bold; a column with a value never shows
\* the placeholder.
C20_BestIsMarked ==
    rnd_kind = "table" =>
       \A j \in 1..Len(rnd_out) : \A i \in 1..Len(POLICY_ORDER) :
          /\ rnd_out[j].cells[i].bold <=>
                /\ has_value(j, i)
                /\ \A k \in 1..Len(POLICY_ORDER) : has_value(j, k) => at_least_as_good(j, i, k)
          /\ (rnd_out[j].cells[i].text = Gap) <=> ~has_value(j, i)

\* C20 witness: a finished table whose throughput row has a policy without
\* ResultSet (placeholder), the fastest policy in bold and a slower one not
C20_Witness ==
    /\ rnd_kind = "table"
    /\ rnd_pc = "done"
    /\ rnd_in["replacement_lru"] = None
    /\ has_value(2, 2) /\ has_value(2, 3)
    /\ stored_mean(2, 2) = 1000 /\ stored_mean(2, 3) = 2000
    /\ rnd_out[2].cells[1] = [text |-> Gap, hits |-> None, bold |-> FALSE]
    /\ rnd_out[2].cells[2].bold
    /\ ~rnd_out[2].cells[3].bold

(***************************************************************************)
(* The operation counts of the manifest and of the command lines.          *)
(***************************************************************************)
Phases == {"phase1", "mixed", "durability"}

\* the op-count flag of a phase on the subject's command line
phase_flag(ph) ==
    IF ph = "phase1" THEN "--phase1-ops"
    ELSE IF ph = "mixed" THEN "--mixed-ops" ELSE "--durability-ops"

\* the override given on the orchestrator's command line for a phase
phase_override(ph) ==
    IF ph = "phase1" THEN args.phase1_ops
    ELSE IF ph = "mixed" THEN args.mixed_ops ELSE args.durability_ops

\* the op count the heavy profile fixes for a phase
heavy_default(ph) ==
    IF ph = "phase1" THEN 20000 ELSE IF ph = "mixed" THEN 10000 ELSE 5000

\* the positions of a flag in a command line
flag_positions(cmd, flag) == {i \in 1..Len(cmd) : cmd[i] = flag}

\* C21: for every phase the manifest records "auto" exactly when the
\* profile is capped and no override was given, and then no command of a
\* cell carries the phase's flag; otherwise it records the override (or the
\* heavy default), and every cell's command carries the flag once, followed
\* by that integer.
C21_ManifestOpsMatchCommands ==
    manifest.exists =>
       \A ph \in Phases :
          LET recorded == manifest.content[1].ops[ph]
              flag == phase_flag(ph)
              given == phase_override(ph)
              shown == IF recorded = None THEN "auto" ELSE ToString(recorded[1])
          IN /\ (recorded = None) <=> (args.profile = "capped" /\ given = None)
             /\ recorded # None =>
                   recorded = IF given # None THEN given ELSE Some(heavy_default(ph))
             /\ \A k \in 1..Len(log) :
                   log[k].event = "invoke" =>
                      IF recorded = None
                      THEN flag_positions(log[k].command, flag) = {}
                      ELSE \E i \in 1..(Len(log[k].command) - 1) :
                              /\ log[k].command[i] = flag
                              /\ log[k].command[i + 1] = shown
                              /\ flag_positions(log[k].command, flag) = {i}

\* C21 witness: a finished capped sweep with an override of 0 for one phase
\* and "auto" recorded for the other two
C21_Witness ==
    /\ pc = "done"
    /\ Len(invocations) = 6
    /\ args.profile = "capped"
    /\ manifest.content[1].ops = [phase1 |-> None, mixed |-> None, durability |-> Some(0)]
    /\ flag_positions(invocations[6].command, "--mixed-ops") = {}
    /\ flag_positions(invocations[6].command, "--durability-ops") # {}

(***************************************************************************)
(* The end of the orchestrator process on a fatal condition.               *)
(***************************************************************************)
\* C22: a sweep that hits a fatal condition ends with a non-zero exit
\* status; when a cell failed, the exact command of that cell and the
\* captured error output of its child have been printed; the process ends
\* with status 0 only when all six cells completed.
C22_FatalErrorIsReported ==
    /\ exit_status = 0 => written_cells = Cells
    /\ pc \in {"failed", "crashed"} => exit_status > 0
    /\ pc = "failed" =>
          /\ log[Len(log)].event = "invoke"
          /\ \E i \in 1..Len(stderr) :
                /\ stderr[i].kind \in {"running", "error"}
                /\ stderr[i].command = log[Len(log)].command
          /\ stderr[Len(stderr)].kind = "error"
          /\ stderr[Len(stderr)].child_stderr

(***************************************************************************)
(* The aggregate summary against the comparison reports.                   *)
(***************************************************************************)
\* the number of rows of a report table with the given status
rows_marked(table, status) ==
    Cardinality({i \in 1..Len(table) : table[i].status = status})

\* C23: for every regime whose aggregate line is printed, the faster /
\* neutral / slower counts equal the numbers of rows the comparison report
\* of the regime marks improved / neutral / regressed, and the three counts
\* sum to the number of base records.
C23_SummaryAgreesWithReport ==
    \A k \in 1..Len(stderr) :
        (stderr[k].kind = "summary" /\ reports[stderr[k].regime].exists) =>
            LET table == reports[stderr[k].regime].content[1].table
                counts == stderr[k].counts
            IN /\ counts.faster = rows_marked(table, "faster")
               /\ counts.neutral = rows_marked(table, "ok")
               /\ counts.slower = rows_marked(table, "slower")
               /\ counts.faster + counts.neutral + counts.slower
                     = Len(raw[<<"buffered", stderr[k].regime>>].content[1])

(***************************************************************************)
(* The invoker commits to the first bracketed line.                        *)
(***************************************************************************)
\* the error an invoker ends with on a payload that does not parse
is_malformed_payload_error(invoker, error) ==
    IF invoker = "run_bench_cell" THEN error = [type |-> "RuntimeError", text |-> "Bad JSON"]
    ELSE IF invoker = "run_benchmark"
    THEN error = [type |-> "RuntimeError", text |-> "Invalid JSON"]
    ELSE error.type = "JSONDecodeError"

\* C24: the scan never tests a line after the first bracketed one; when
\* that line is not valid JSON the invocation ends with the malformed-
\* payload error and returns nothing, whatever the later lines hold.
C24_CommitsToFirstBracketedLine ==
    \A k \in 1..Len(ext_out.stdout) :
        first_bracketed(k) =>
           /\ ext_looked \subseteq 1..k
           /\ (ext_out.stdout[k].kind # "array" /\ ext_out.returncode = 0) =>
                 /\ ext_pc # "returned"
                 /\ ~ext_result.returned
                 /\ ext_ended =>
                       /\ k \in ext_looked
                       /\ is_malformed_payload_error(ext_invoker, ext_result.error)

\* C24 witness: a tagged log line, a bracketed line that is not JSON, then a
\* valid payload; the invoker has raised at the second line
C24_Witness ==
    /\ ext_invoker = "run_benchmark"
    /\ ext_pc = "raised"
    /\ ext_out = [returncode |-> 0,
                  stdout |-> <<TaggedLogLine, BracketedText, ArrayLine(<<PlainRecord("y", 7)>>)>>]
    /\ ext_looked = {1, 2}
    /\ ext_result.error.text = "Invalid JSON"

(***************************************************************************)
(* The comparator on ResultSets with duplicate names.                      *)
(***************************************************************************)
\* the last record of the candidate with the name of base record i
last_of_name(i) ==
    pr_data[CHOOSE k \in 1..Len(pr_data) :
               /\ pr_data[k].name = base_data[i].name
               /\ \A j \in (k + 1)..Len(pr_data) : pr_data[j].name # base_data[i].name]

\* the report says that a ResultSet holds a duplicate name: it has a line
\* that is neither the header nor the row of a base record
duplicate_flagged ==
    \/ Len(lines) # Len(base_data) + 1
    \/ \E k \in 2..Len(lines) : lines[k].status \notin {"ok", "slower", "faster", "missing"}

\* C25: every base row whose name occurs in the candidate is compared
\* against the last candidate record of that name, and a ResultSet with two
\* records of one name is flagged in the report.
C25_DuplicateLastWinsAndFlagged ==
    cmp_pc = "returned" =>
       /\ \A i \in 1..Len(base_data) :
             matched(i) =>
                /\ lines[i + 1].pr = format_ns(last_of_name(i).value)
                /\ lines[i + 1].change
                      = fmt_change(calculate_change(base_data[i].value, last_of_name(i).value))
       /\ (~unique_names(pr_data) \/ ~unique_names(base_data)) => duplicate_flagged

(***************************************************************************)
(* Termination of the sweep.                                               *)
(***************************************************************************)
\* the sweep has run all six cells and printed the aggregate line of every
\* regime
sweep_completed ==
    /\ pc = "done"
    /\ written_cells = Cells
    /\ Len(SelectSeq(stderr, LAMBDA l : l.kind = "summary")) = Len(REGIMES)

\* the sweep has ended at the failing invocation of a cell
sweep_aborted ==
    /\ pc = "failed"
    /\ subject_failed
    /\ log[Len(log)].event = "invoke"

\* at most six subject invocations and three comparator runs, no cell
\* invoked twice
bounded_invocations ==
    /\ Len(invocations) <= 6
    /\ Len(comparisons) <= 3
    /\ \A i, j \in 1..Len(invocations) : i # j => invocations[i].cells # invocations[j].cells

\* C26: when every child process ends, the sweep ends: eventually it has
\* either completed all cells and printed the aggregate summary, or aborted
\* at the first failing cell, after at most six subject invocations and
\* three comparator runs, each cell invoked at most once.
C26_SweepTerminates ==
    /\ []bounded_invocations
    /\ <>(sweep_completed \/ sweep_aborted)

(***************************************************************************)
(* The order of the steps within a regime.                                 *)
(***************************************************************************)
\* the step expected at position k of the history: after the first manifest
\* write, six steps per regime
step_regime(k) == REGIMES[((k - 2) \div 6) + 1]
step_in_regime(k) == (k - 2) % 6

\* the entry at position k of the history is the step expected there
step_in_order(k) ==
    LET r == step_regime(k)
        q == step_in_regime(k)
    IN CASE q = 0 -> log[k].event = "invoke" /\ log[k].cells = {<<"buffered", r>>}
         [] q = 1 -> log[k].event = "artifact" /\ log[k].cells = {<<"buffered", r>>}
         [] q = 2 -> log[k].event = "invoke" /\ log[k].cells = {<<"direct", r>>}
         [] q = 3 -> log[k].event = "artifact" /\ log[k].cells = {<<"direct", r>>}
         [] q = 4 -> log[k].event \in {"compare", "compare_failed"} /\ log[k].cells = cells_of(r)
         [] OTHER -> log[k].event = "manifest" /\ cells_of(r) \subseteq log[k].cells

\* the commands recorded for the regime at index ri, read from the history
commands_run(ri) ==
    [buffered |-> log[2 + 6 * (ri - 1)].command,
     direct |-> log[4 + 6 * (ri - 1)].command,
     compare |-> compare_cmd_of(REGIMES[ri])]

\* C27: after the first manifest write, the steps of each regime occur in
\* the order buffered invocation, buffered artifact, direct invocation,
\* direct artifact, comparator run, manifest write with the regime's
\* commands; an artifact holds what its own successful invocation returned;
\* a report is annotated only after that manifest write, and its annotation
\* shows the three commands of its regime, as the manifest on disk does.
C27_StepsOfARegimeInOrder ==
    /\ Len(log) >= 1 => log[1].event = "manifest" /\ log[1].cells = {}
    /\ \A k \in 2..Len(log) : step_in_order(k)
    /\ \A k \in 2..Len(log) :
          log[k].event = "artifact" =>
             \E out \in subject :
                 bench_outcome(out) = [error |-> "none", data |-> log[k].data]
    /\ \A ri \in 1..Len(REGIMES) :
          (reports[REGIMES[ri]].exists /\ reports[REGIMES[ri]].content[1].headers # << >>) =>
             /\ Len(log) >= 7 + 6 * (ri - 1)
             /\ reports[REGIMES[ri]].content[1].headers[1].commands = <<commands_run(ri)>>
             /\ manifest.content[1].commands[REGIMES[ri]] = commands_run(ri)

\* C27 witness: a finished sweep of nineteen steps with the three reports
\* annotated
C27_Witness ==
    /\ pc = "done"
    /\ Len(log) = 19
    /\ \A ri \in 1..Len(REGIMES) :
          /\ reports[REGIMES[ri]].exists
          /\ Len(reports[REGIMES[ri]].content[1].headers) = 1
          /\ reports[REGIMES[ri]].content[1].headers[1].commands = <<commands_run(ri)>>

(***************************************************************************)
(* The comparison reports across sweeps into one output directory.         *)
(***************************************************************************)
\* main stands between the comparator run of regime r and its annotation
being_annotated(r) == pc \in {"manifest_update", "prepend"} /\ regime = r

\* C28: every comparison report on disk has exactly one metadata preamble
\* (none only while main is about to annotate it) followed by one table, and
\* a preamble of the current sweep sits on a table the comparator wrote in
\* the current sweep.
C28_OnePreambleOneTable ==
    \A r \in {REGIMES[i] : i \in 1..Len(REGIMES)} :
        reports[r].exists =>
           /\ Len(reports[r].content) = 1
           /\ Len(reports[r].content[1].headers) <= 1
           /\ reports[r].content[1].headers = << >> => being_annotated(r)
           /\ (/\ reports[r].content[1].headers # << >>
               /\ reports[r].content[1].headers[1].generated_at_utc = sweep) =>
                 \E k \in 1..Len(log) :
                     log[k].event = "compare" /\ log[k].cells = cells_of(r)

(***************************************************************************)
(* The cgroup context of the run metadata.                                 *)
(***************************************************************************)
\* C29: the cgroup context recorded in the manifest is consistent: limited
\* is true exactly when the recorded memory_max or memory_swap_max is a
\* value other than absent and "max"; a context that is not detected has
\* limited false and every value absent; the detection never stops main,
\* whatever read fails.
C29_CgroupContextConsistent ==
    /\ pc \notin {"failed", "crashed"}
    /\ manifest.exists =>
          LET cgroup == manifest.content[1].cgroup
          IN /\ cgroup.limited <=>
                   \/ cgroup.memory_max \notin {None, Some("max")}
                   \/ cgroup.memory_swap_max \notin {None, Some("max")}
             /\ ~cgroup.detected =>
                   /\ ~cgroup.limited
                   /\ cgroup.memory_max = None
                   /\ cgroup.memory_swap_max = None
                   /\ cgroup.memory_current = None
                   /\ cgroup.cpu_max = None

\* the policies this run of the runner was asked to run
policies_run == {pol_args.policies[i] : i \in 1..Len(pol_args.policies)}

\* the names of the run-parameter fields
run_parameter_fields == DOMAIN run_parameters(pol_args, 2)

\* metadata.json of the directory, before the run and now
old_metadata == pol_old.content[1]
new_metadata == pol_disk.metadata.content[1]

\* C30: a run of the policy runner over some policies into a directory that
\* already has metadata.json does not touch the file before it has finished,
\* and then leaves in it the entries of the policies it did not run as they
\* were, replaces the entries of the policies it ran and the run-parameter
\* fields by those of this run, and keeps every other field.
C30_OtherPoliciesKept ==
    pol_old.exists =>
        /\ pol_pc # "done" => pol_disk.metadata = pol_old
        /\ pol_pc = "done" =>
              /\ pol_disk.metadata.exists
              /\ DOMAIN new_metadata = DOMAIN old_metadata \cup run_parameter_fields
                                                          \cup {"policies"}
              /\ \A k \in run_parameter_fields :
                    new_metadata[k] = run_parameters(pol_args, 2)[k]
              /\ \A k \in DOMAIN old_metadata \ (run_parameter_fields \cup {"policies"}) :
                    new_metadata[k] = old_metadata[k]
              /\ DOMAIN new_metadata["policies"] =
                    DOMAIN old_metadata["policies"] \cup policies_run
              /\ \A p \in DOMAIN old_metadata["policies"] \ policies_run :
                    new_metadata["policies"][p] = old_metadata["policies"][p]
              /\ \A p \in policies_run :
                    /\ new_metadata["policies"][p].display =
                          <<POLICIES[p], PAGE_SIZES[pol_args.page_size]>>
                    /\ new_metadata["policies"][p].json_path = json_rel(p)
                    /\ new_metadata["policies"][p].log_path =
                          (IF pol_args.skip_text THEN None ELSE Some(log_rel_of(p)))
                    /\ pol_args.skip_text => new_metadata["policies"][p].hit_rates = << >>
                    /\ ~pol_args.skip_text =>
                          new_metadata["policies"][p].hit_rates =
                              capture_hit_rates(pol_disk.txt[p].content[1])

\* a finished run over one policy into a directory whose metadata.json had
\* entries for all three: the entry of the policy run has changed, the
\* entries of the other two are there as they were
C30_Witness ==
    /\ pol_pc = "done"
    /\ pol_old.exists
    /\ DOMAIN old_metadata["policies"] = Policies
    /\ policies_run = {"replacement_clock"}
    /\ new_metadata["policies"]["replacement_clock"] #
          old_metadata["policies"]["replacement_clock"]
    /\ new_metadata["policies"]["replacement_lru"] =
          old_metadata["policies"]["replacement_lru"]
    /\ new_metadata["iterations"] # old_metadata["iterations"]

====
